---- MODULE Spec2Model ----
(***************************************************************************)
(* QueryCanvas: the SQL-comment display-option parser and the style        *)
(* resolution engine (class SqlCommentParser of                            *)
(* src/database/connectionFactory.ts).                                     *)
(*                                                                         *)
(* Texts are JavaScript strings.  The state keeps them as TLA+ strings;    *)
(* the parser works on their character sequences (Chars), so that every   *)
(* regular expression of the source is translated character by character. *)
(* JavaScript values are tagged records: [t |-> "undefined"],              *)
(* [t |-> "null"], [t |-> "string", v |-> s], [t |-> "NaN"] and            *)
(* [t |-> "number", m |-> m, e |-> e] for the number m / 10^e.             *)
(***************************************************************************)
EXTENDS Integers, Sequences, FiniteSets, Bags, TLC

(***************************************************************************)
(* Characters and character classes of the regular expressions.            *)
(***************************************************************************)
Chars(s) == [i \in 1..Len(s) |-> SubSeq(s, i, i)]

RECURSIVE Text(_)
Text(cs) == IF cs = <<>> THEN "" ELSE Head(cs) \o Text(Tail(cs))

Digit == {"0", "1", "2", "3", "4", "5", "6", "7", "8", "9"}

Lower == {"a", "b", "c", "d", "e", "f", "g", "h", "i", "j", "k", "l", "m",
          "n", "o", "p", "q", "r", "s", "t", "u", "v", "w", "x", "y", "z"}

Upper == {"A", "B", "C", "D", "E", "F", "G", "H", "I", "J", "K", "L", "M",
          "N", "O", "P", "Q", "R", "S", "T", "U", "V", "W", "X", "Y", "Z"}

\* \w
Word == Lower \cup Upper \cup Digit \cup {"_"}

\* \s (the white space of the texts considered)
Space == {" ", "\t", "\n", "\r", "\f"}

\* what . does not match
LineTerm == {"\n", "\r"}

\* [<>!=]
OpChar == {"<", ">", "!", "="}

DigitVal(ch) == CHOOSE d \in 0..9 : Chars("0123456789")[d + 1] = ch

Max(S) == CHOOSE x \in S : \A y \in S : y <= x

Min(S) == CHOOSE x \in S : \A y \in S : x <= y

\* first index >= i of a character outside class S (Len + 1 when none)
SkipIn(cs, i, S) ==
    IF \E j \in i..Len(cs) : cs[j] \notin S
    THEN CHOOSE j \in i..Len(cs) :
             cs[j] \notin S /\ \A k \in i..(j - 1) : cs[k] \in S
    ELSE Max({i, Len(cs) + 1})

\* first index >= i of a character of class S (Len + 1 when none)
SkipNotIn(cs, i, S) ==
    IF \E j \in i..Len(cs) : cs[j] \in S
    THEN CHOOSE j \in i..Len(cs) :
             cs[j] \in S /\ \A k \in i..(j - 1) : cs[k] \notin S
    ELSE Max({i, Len(cs) + 1})

StartsAt(cs, i, lit) ==
    /\ i >= 1
    /\ i + Len(lit) - 1 <= Len(cs)
    /\ \A k \in 1..Len(lit) : cs[i + k - 1] = lit[k]

\* first index >= from where lit occurs in cs, 0 when it does not
IndexOf(cs, lit, from) ==
    IF \E i \in from..Len(cs) : StartsAt(cs, i, lit)
    THEN CHOOSE i \in from..Len(cs) :
             StartsAt(cs, i, lit)
                 /\ \A k \in from..(i - 1) : ~StartsAt(cs, k, lit)
    ELSE 0

(***************************************************************************)
(* JavaScript values.                                                      *)
(***************************************************************************)
Undefined == [t |-> "undefined"]

Null == [t |-> "null"]

NaN == [t |-> "NaN"]

JStr(s) == [t |-> "string", v |-> s]

JBool(b) == [t |-> "boolean", v |-> b]

RECURSIVE Pow10(_)
Pow10(e) == IF e = 0 THEN 1 ELSE 10 * Pow10(e - 1)

\* the number m / 10^e, in lowest decimal terms
RECURSIVE JNum(_, _)
JNum(m, e) ==
    IF e > 0 /\ m % 10 = 0 THEN JNum(m \div 10, e - 1)
    ELSE [t |-> "number", m |-> m, e |-> e]

IsNumber(v) == v.t = "number"

\* typeof v === 'number'
TypeOfNumber(v) == v.t \in {"number", "NaN"}

\* the truthiness test of if (v), v || w and !v
Truthy(v) ==
    CASE v.t = "string" -> v.v # ""
      [] v.t = "number" -> v.m # 0
      [] v.t = "boolean" -> v.v
      [] OTHER -> FALSE

\* a || b
OrElse(a, b) == IF Truthy(a) THEN a ELSE b

\* a < b for two numbers
NumLess(a, b) == a.m * Pow10(b.e) < b.m * Pow10(a.e)

\* the exception a call raised, in place of its result
Threw(name) == [t |-> "throw", v |-> name]

\* whether the record v stands for a raised exception
IsThrow(v) == "t" \in DOMAIN v /\ v.t = "throw"

\* whether the record v is null
IsNull(v) == "t" \in DOMAIN v /\ v.t = "null"

(***************************************************************************)
(* The string and number functions of JavaScript the parser calls.         *)
(***************************************************************************)
\* the value of the decimal digits cs[from..to - 1]
RECURSIVE DecVal(_, _, _)
DecVal(cs, from, to) ==
    IF to <= from THEN 0
    ELSE 10 * DecVal(cs, from, to - 1) + DigitVal(cs[to - 1])

\* cs[from..to - 1] read as decimal digits, negated when neg
SignedDigits(cs, neg, from, to) ==
    IF neg THEN 0 - DecVal(cs, from, to) ELSE DecVal(cs, from, to)

\* the exponent of a decimal literal whose mantissa ends before index at:
\* e or E, a sign and digits; 0 when that part is missing
ExponentAt(cs, at) ==
    LET xneg == at + 1 <= Len(cs) /\ cs[at + 1] = "-"
        x1 == IF at + 1 <= Len(cs) /\ cs[at + 1] \in {"+", "-"}
              THEN at + 2 ELSE at + 1
    IN  IF at <= Len(cs) /\ cs[at] \in {"e", "E"}
        THEN SignedDigits(cs, xneg, x1, SkipIn(cs, x1, Digit))
        ELSE 0

\* the decimal literal with the integer digits cs[i1..intEnd - 1], then a
\* fraction and an exponent; NaN when it has no digit
FloatValue(cs, neg, i1, intEnd) ==
    LET fracEnd == IF intEnd <= Len(cs) /\ cs[intEnd] = "."
                   THEN SkipIn(cs, intEnd + 1, Digit) ELSE intEnd
        nfrac == IF fracEnd > intEnd THEN fracEnd - (intEnd + 1) ELSE 0
        m == SignedDigits(cs, neg, i1, intEnd) * Pow10(nfrac)
                 + SignedDigits(cs, neg, intEnd + 1, fracEnd)
        x == ExponentAt(cs, fracEnd)
    IN  IF ~(intEnd > i1 \/ nfrac > 0) THEN NaN
        ELSE IF x >= nfrac THEN JNum(m * Pow10(x - nfrac), 0)
        ELSE JNum(m, nfrac - x)

\* parseFloat(s): white space, a sign, digits, a fraction and an exponent;
\* the longest prefix that is a decimal literal decides, NaN when there is
\* none.  (Infinity and magnitudes that print in exponent form are not in
\* the texts considered.)
ParseFloat(cs) ==
    LET i0 == SkipIn(cs, 1, Space)
        i1 == IF i0 <= Len(cs) /\ cs[i0] \in {"+", "-"} THEN i0 + 1 ELSE i0
    IN  FloatValue(cs, i0 <= Len(cs) /\ cs[i0] = "-", i1,
                   SkipIn(cs, i1, Digit))

\* parseInt(s, 10): white space, a sign and digits; NaN without a digit
ParseInt(cs) ==
    LET i0 == SkipIn(cs, 1, Space)
        i1 == IF i0 <= Len(cs) /\ cs[i0] \in {"+", "-"} THEN i0 + 1 ELSE i0
    IN  IF SkipIn(cs, i1, Digit) = i1 THEN NaN
        ELSE JNum(SignedDigits(cs, i0 <= Len(cs) /\ cs[i0] = "-", i1,
                               SkipIn(cs, i1, Digit)), 0)

\* the decimal digits of a natural number
RECURSIVE NatChars(_)
NatChars(n) ==
    IF n < 10 THEN <<Chars("0123456789")[n + 1]>>
    ELSE NatChars(n \div 10) \o <<Chars("0123456789")[(n % 10) + 1]>>

\* cs padded on the left with zeros to n characters: padStart(n, '0')
RECURSIVE PadStart(_, _)
PadStart(cs, n) == IF Len(cs) >= n THEN cs ELSE PadStart(<<"0">> \o cs, n)

Abs(n) == IF n < 0 THEN 0 - n ELSE n

\* Number.prototype.toString of m / 10^e (decimal form)
NumChars(v) ==
    LET a == Abs(v.m)
        ip == NatChars(a \div Pow10(v.e))
        fp == IF v.e = 0 THEN <<>>
              ELSE <<".">> \o PadStart(NatChars(a % Pow10(v.e)), v.e)
    IN  (IF v.m < 0 THEN <<"-">> ELSE <<>>) \o ip \o fp

\* String(v)
ToStringChars(v) ==
    CASE v.t = "string" -> Chars(v.v)
      [] v.t = "number" -> NumChars(v)
      [] v.t = "NaN" -> Chars("NaN")
      [] v.t = "undefined" -> Chars("undefined")
      [] v.t = "null" -> Chars("null")
      [] v.t = "boolean" -> IF v.v THEN Chars("true") ELSE Chars("false")

\* s.split(sep) for a one-character separator
RECURSIVE Split(_, _)
Split(cs, sep) ==
    LET i == IndexOf(cs, <<sep>>, 1)
    IN  IF i = 0 THEN <<cs>>
        ELSE <<SubSeq(cs, 1, i - 1)>> \o Split(SubSeq(cs, i + 1, Len(cs)), sep)

\* s.trim()
Trim(cs) ==
    LET a == SkipIn(cs, 1, Space)
        ends == {j \in a..Len(cs) : cs[j] \notin Space}
    IN  IF ends = {} THEN <<>> ELSE SubSeq(cs, a, Max(ends))

\* xs.join(sep) of a list of strings
RECURSIVE Join(_, _)
Join(xs, sep) ==
    IF xs = <<>> THEN ""
    ELSE IF Len(xs) = 1 THEN xs[1]
    ELSE xs[1] \o sep \o Join(Tail(xs), sep)

(***************************************************************************)
(* SqlCommentParser: the key=value clauses shared by @column and @chart.   *)
(***************************************************************************)
NoMatch == [ok |-> FALSE]

\* a match at this index, or else what the search finds further on
OrMatch(m, later) == IF m.ok THEN m ELSE later

\* the index of the quote q that closes the one at index v; 0 when cs[v] is
\* not q or nothing closes it
QuoteEnd(cs, v, q) ==
    IF v <= Len(cs) /\ cs[v] = q THEN IndexOf(cs, <<q>>, v + 1) ELSE 0

\* the value that starts at index v: double-quoted up to dq (group 3),
\* single-quoted up to sq (group 4) or bare up to be (group 5), tried in
\* that order
OptionValued(cs, key, v, dq, sq, be) ==
    IF dq # 0
    THEN [ok |-> TRUE, key |-> key, end |-> dq,
          g3 |-> JStr(Text(SubSeq(cs, v + 1, dq - 1))),
          g4 |-> Undefined, g5 |-> Undefined]
    ELSE IF sq # 0
    THEN [ok |-> TRUE, key |-> key, end |-> sq, g3 |-> Undefined,
          g4 |-> JStr(Text(SubSeq(cs, v + 1, sq - 1))),
          g5 |-> Undefined]
    ELSE IF be > v
    THEN [ok |-> TRUE, key |-> key, end |-> be - 1, g3 |-> Undefined,
          g4 |-> Undefined, g5 |-> JStr(Text(SubSeq(cs, v, be - 1)))]
    ELSE NoMatch

\* one match of /(\w+)=("([^"]*)"|'([^']*)'|([^\s]+))/ starting at index i:
\* the key cs[i..ke - 1] (group 1), the = and the value
OptionMatchAt(cs, i) ==
    LET ke == SkipIn(cs, i, Word)
    IN  IF ke > i /\ ke <= Len(cs) /\ cs[ke] = "="
        THEN OptionValued(cs, Text(SubSeq(cs, i, ke - 1)), ke + 1,
                          QuoteEnd(cs, ke + 1, "\""),
                          QuoteEnd(cs, ke + 1, "'"),
                          SkipNotIn(cs, ke + 1, Space))
        ELSE NoMatch

\* const value = optionMatch[3] || optionMatch[4] || optionMatch[5]
OptionValue(m) == OrElse(OrElse(m.g3, m.g4), m.g5)

\* the index of the first match at or after index from, 0 when there is none
OptionIndex(cs, from) ==
    IF \E i \in from..Len(cs) : OptionMatchAt(cs, i).ok
    THEN CHOOSE i \in from..Len(cs) :
             OptionMatchAt(cs, i).ok
                 /\ \A k \in from..(i - 1) : ~OptionMatchAt(cs, k).ok
    ELSE 0

\* optionsStr.matchAll(...): the matches from left to right, each search
\* resuming after the previous match
RECURSIVE OptionMatches(_, _)
\* the match m and those after it
OptionMatchesAfter(cs, m) ==
    <<[key |-> m.key, value |-> OptionValue(m)]>>
        \o OptionMatches(cs, m.end + 1)

OptionMatches(cs, from) ==
    IF OptionIndex(cs, from) = 0 THEN <<>>
    ELSE OptionMatchesAfter(cs, OptionMatchAt(cs, OptionIndex(cs, from)))

(***************************************************************************)
(* SqlCommentParser.parseColumnDirective                                   *)
(***************************************************************************)
NoStyles ==
    [color |-> Undefined, backgroundColor |-> Undefined,
     bold |-> Undefined, fontWeight |-> Undefined]

NewColumnOption(columnName) ==
    [columnName |-> columnName, type |-> Undefined, align |-> Undefined,
     format |-> Undefined, comma |-> Undefined, decimal |-> Undefined,
     pattern |-> Undefined, width |-> Undefined,
     backgroundColor |-> Undefined, color |-> Undefined,
     fontWeight |-> Undefined, conditionalStyles |-> <<>>]

\* the switch (key) of the key=value loop
SetColumnOption(opt, key, value) ==
    CASE key = "type" ->
            IF value \in {JStr("int"), JStr("float"), JStr("decimal"),
                          JStr("text")}
            THEN [opt EXCEPT !.type = value] ELSE opt
      [] key = "align" ->
            IF value \in {JStr("left"), JStr("center"), JStr("right")}
            THEN [opt EXCEPT !.align = value] ELSE opt
      [] key = "format" ->
            IF value \in {JStr("number"), JStr("datetime"), JStr("text")}
            THEN [opt EXCEPT !.format = value] ELSE opt
      [] key = "comma" -> [opt EXCEPT !.comma = JBool(value = JStr("true"))]
      [] key = "decimal" ->
            [opt EXCEPT !.decimal = ParseInt(ToStringChars(value))]
      [] key = "pattern" -> [opt EXCEPT !.pattern = value]
      [] key = "width" -> [opt EXCEPT !.width = value]
      [] key \in {"bg", "backgroundColor"} ->
            [opt EXCEPT !.backgroundColor = value]
      [] key = "color" -> [opt EXCEPT !.color = value]
      [] key = "bold" ->
            IF value = JStr("true")
            THEN [opt EXCEPT !.fontWeight = JStr("bold")] ELSE opt
      [] OTHER -> opt

RECURSIVE ApplyColumnOptions(_, _)
ApplyColumnOptions(opt, ms) ==
    IF ms = <<>> THEN opt
    ELSE ApplyColumnOptions(SetColumnOption(opt, ms[1].key, ms[1].value),
                            Tail(ms))

\* the switch (styleKey) of a conditional or row rule
SetRuleStyle(styles, styleKey, styleValue) ==
    CASE styleKey = "color" -> [styles EXCEPT !.color = JStr(styleValue)]
      [] styleKey \in {"bg", "backgroundColor"} ->
            [styles EXCEPT !.backgroundColor = JStr(styleValue)]
      [] styleKey = "bold" ->
            IF styleValue = "true"
            THEN [styles EXCEPT !.bold = JBool(TRUE),
                                !.fontWeight = JStr("bold")]
            ELSE styles
      [] styleKey = "fontWeight" ->
            [styles EXCEPT !.fontWeight = JStr(styleValue)]
      [] OTHER -> styles

\* const [styleKey, styleValue] = stylePart.split('='): a part without key
\* or without value is skipped
StylePart(styles, kv) ==
    IF kv[1] = <<>> \/ Len(kv) < 2 \/ kv[2] = <<>> THEN styles
    ELSE SetRuleStyle(styles, Text(kv[1]), Text(kv[2]))

\* for (const stylePart of styleParts); trimParts is the stylePart.trim()
\* of @row
RECURSIVE ParseStyles(_, _, _)
ParseStyles(styles, styleParts, trimParts) ==
    IF styleParts = <<>> THEN styles
    ELSE ParseStyles(StylePart(styles,
                               Split(IF trimParts THEN Trim(styleParts[1])
                                     ELSE styleParts[1], "=")),
                     Tail(styleParts), trimParts)

\* switch (operator): the six operators pass, anything else is rejected
ValidOperator(operator) == operator \in {"<", ">", "<=", ">=", "==", "!="}

\* after the digits cs[n0..de - 1]: the index after the fraction, if one
\* follows; 0 when there is no digit
NumberEndFrom(cs, n0, de) ==
    IF de = n0 THEN 0
    ELSE IF de + 1 <= Len(cs) /\ cs[de] = "." /\ cs[de + 1] \in Digit
    THEN SkipIn(cs, de + 1, Digit)
    ELSE de

\* the index after the longest -?\d+(?:\.\d+)? that starts at index at, 0
\* when there is none
NumberEnd(cs, at) ==
    LET n0 == IF at <= Len(cs) /\ cs[at] = "-" THEN at + 1 ELSE at
    IN  NumberEndFrom(cs, n0, SkipIn(cs, n0, Digit))

\* the operator cs[o..oe - 1], the number up to ne - 1, ':' and [^\s]+
CondStyles(cs, o, oe, ne) ==
    LET se == SkipNotIn(cs, ne + 1, Space)
    IN  IF ne # 0 /\ ne <= Len(cs) /\ cs[ne] = ":" /\ se > ne + 1
        THEN [ok |-> TRUE, end |-> se - 1,
              operator |-> Text(SubSeq(cs, o, oe - 1)),
              number |-> SubSeq(cs, oe, ne - 1),
              styleStr |-> SubSeq(cs, ne + 1, se - 1)]
        ELSE NoMatch

\* one match of /if([<>!=]+)(-?\d+(?:\.\d+)?):([^\s]+)/ starting at index i
CondMatchAt(cs, i) ==
    LET oe == SkipIn(cs, i + 2, OpChar)
    IN  IF StartsAt(cs, i, <<"i", "f">>) /\ oe > i + 2
        THEN CondStyles(cs, i + 2, oe, NumberEnd(cs, oe))
        ELSE NoMatch

\* the index of the first match at or after index from, 0 when there is none
CondIndex(cs, from) ==
    IF \E i \in from..Len(cs) : CondMatchAt(cs, i).ok
    THEN CHOOSE i \in from..Len(cs) :
             CondMatchAt(cs, i).ok
                 /\ \A k \in from..(i - 1) : ~CondMatchAt(cs, k).ok
    ELSE 0

\* optionsStr.matchAll(...): the matches from left to right
RECURSIVE CondMatches(_, _)
\* the match m and those after it
CondMatchesAfter(cs, m) == <<m>> \o CondMatches(cs, m.end + 1)

CondMatches(cs, from) ==
    IF CondIndex(cs, from) = 0 THEN <<>>
    ELSE CondMatchesAfter(cs, CondMatchAt(cs, CondIndex(cs, from)))

\* the rule of one match of the conditional pattern
CondRule(m) ==
    [operator |-> m.operator,
     value |-> ParseFloat(m.number),
     styles |-> ParseStyles(NoStyles, Split(m.styleStr, ","), FALSE)]

\* ApplyCondMatches with unshift in place of push: each rule is put before
\* the earlier ones
RECURSIVE ApplyCondMatches_prepend(_, _)
ApplyCondMatches_prepend(rules, ms) ==
    IF ms = <<>> THEN rules
    ELSE ApplyCondMatches_prepend(IF ValidOperator(ms[1].operator)
                                  THEN <<CondRule(ms[1])>> \o rules
                                  ELSE rules,
                                  Tail(ms))

\* the body of the loop over conditionalMatches: a clause with an invalid
\* operator is skipped, any other is appended to conditionalStyles
RECURSIVE ApplyCondMatches(_, _)
ApplyCondMatches(rules, ms) ==
    IF ms = <<>> THEN rules
    ELSE ApplyCondMatches(IF ValidOperator(ms[1].operator)
                          THEN Append(rules, CondRule(ms[1])) ELSE rules,
                          Tail(ms))

\* the name cs[w..ne - 1] (group 1), white space and the rest of the line
\* (group 2)
ColumnOptionsStr(cs, w, ne) ==
    LET w2 == SkipIn(cs, ne, Space)
    IN  IF ne > w /\ w2 > ne
        THEN [ok |-> TRUE, columnName |-> Text(SubSeq(cs, w, ne - 1)),
              optionsStr |-> SubSeq(cs, w2, SkipNotIn(cs, w2, LineTerm) - 1)]
        ELSE NoMatch

\* directive.match(/@column\s+(\S+)\s+(.*)/) tried at index i
ColumnHeadAt(cs, i) ==
    LET w == SkipIn(cs, i + 7, Space)
    IN  IF StartsAt(cs, i, Chars("@column")) /\ w > i + 7
        THEN ColumnOptionsStr(cs, w, SkipNotIn(cs, w, Space))
        ELSE NoMatch

RECURSIVE ColumnHead(_, _)
ColumnHead(cs, from) ==
    IF from > Len(cs) THEN NoMatch
    ELSE OrMatch(ColumnHeadAt(cs, from), ColumnHead(cs, from + 1))

\* the column option of a matched directive: the key=value loop, then the
\* loop over the conditional clauses
ColumnOptionOf(match) ==
    IF ~match.ok THEN Null
    ELSE [ApplyColumnOptions(NewColumnOption(match.columnName),
                             OptionMatches(match.optionsStr, 1))
             EXCEPT !.conditionalStyles =
                 ApplyCondMatches(<<>>, CondMatches(match.optionsStr, 1))]

\* the column option of a directive, Null when the directive is rejected
parseColumnDirective(directive) == ColumnOptionOf(ColumnHead(directive, 1))

(***************************************************************************)
(* SqlCommentParser.parseRowDirective                                      *)
(***************************************************************************)
\* ':' at index c followed by at least one character that . matches
RowRest(cs, c) ==
    c + 1 <= Len(cs) /\ cs[c] = ":" /\ cs[c + 1] \notin LineTerm

\* (.+) after the ':' at index c
RowStyleStr(cs, c) == SubSeq(cs, c + 1, SkipNotIn(cs, c + 1, LineTerm) - 1)

\* the literal at index oe: double-quoted up to dq (group 4), single-quoted
\* up to sq (group 5) or a number up to ne - 1 (group 6), tried in that
\* order, each followed by ':' and the styles
RowTail(cs, operator, oe, dq, sq, ne) ==
    IF dq # 0 /\ RowRest(cs, dq + 1)
    THEN [ok |-> TRUE, operator |-> operator,
          g4 |-> JStr(Text(SubSeq(cs, oe + 1, dq - 1))),
          g5 |-> Undefined, g6 |-> Undefined,
          styleStr |-> RowStyleStr(cs, dq + 1)]
    ELSE IF sq # 0 /\ RowRest(cs, sq + 1)
    THEN [ok |-> TRUE, operator |-> operator, g4 |-> Undefined,
          g5 |-> JStr(Text(SubSeq(cs, oe + 1, sq - 1))),
          g6 |-> Undefined, styleStr |-> RowStyleStr(cs, sq + 1)]
    ELSE IF ne # 0 /\ RowRest(cs, ne)
    THEN [ok |-> TRUE, operator |-> operator, g4 |-> Undefined,
          g5 |-> Undefined, g6 |-> JStr(Text(SubSeq(cs, oe, ne - 1))),
          styleStr |-> RowStyleStr(cs, ne)]
    ELSE NoMatch

\* the part ([<>!=]+)("([^"]*)"|'([^']*)'|(-?\d+(?:\.\d+)?)):(.+) of the
\* @row pattern, with the operator starting at index o
RowTailAt(cs, o) ==
    LET oe == SkipIn(cs, o, OpChar)
    IN  IF oe > o
        THEN RowTail(cs, Text(SubSeq(cs, o, oe - 1)), oe,
                     QuoteEnd(cs, oe, "\""), QuoteEnd(cs, oe, "'"),
                     NumberEnd(cs, oe))
        ELSE NoMatch

\* (\S+?) is lazy: the operator starts at the first index where the rest
\* of the pattern matches, and the column name (group 1) ends before it
RowOperator(cs, w, starts) ==
    IF starts = {} THEN NoMatch
    ELSE [ok |-> TRUE, columnName |-> Text(SubSeq(cs, w, Min(starts) - 1)),
          tail |-> RowTailAt(cs, Min(starts))]

\* /@row\s+(\S+?)([<>!=]+).../ tried at index i
RowMatchAt(cs, i) ==
    LET w == SkipIn(cs, i + 4, Space)
    IN  IF StartsAt(cs, i, Chars("@row")) /\ w > i + 4
        THEN RowOperator(cs, w,
                 {o \in (w + 1)..(SkipNotIn(cs, w, Space) - 1) :
                      cs[o] \in OpChar /\ RowTailAt(cs, o).ok})
        ELSE NoMatch

RECURSIVE RowMatch(_, _)
RowMatch(cs, from) ==
    IF from > Len(cs) THEN NoMatch
    ELSE OrMatch(RowMatchAt(cs, from), RowMatch(cs, from + 1))

\* const rawValue = match[4] || match[5] || match[6]; a quoted literal is
\* kept as a string, anything else goes through parseFloat and stays as it
\* is when that gives NaN
RowCompareValue(t) ==
    LET rawValue == OrElse(OrElse(t.g4, t.g5), t.g6)
    IN  IF Truthy(OrElse(t.g4, t.g5)) THEN rawValue
        ELSE IF ParseFloat(ToStringChars(rawValue)) = NaN THEN rawValue
        ELSE ParseFloat(ToStringChars(rawValue))

\* the row rule of a matched directive
RowRuleOf(match) ==
    IF ~match.ok THEN Null
    ELSE IF ~ValidOperator(match.tail.operator) THEN Null
    ELSE [columnName |-> match.columnName,
          operator |-> match.tail.operator,
          value |-> RowCompareValue(match.tail),
          styles |-> ParseStyles(NoStyles,
                                 Split(match.tail.styleStr, ","), TRUE)]

\* the row rule of a directive, Null when the directive is rejected
parseRowDirective(directive) == RowRuleOf(RowMatch(directive, 1))

(***************************************************************************)
(* SqlCommentParser.parseChartDirective                                    *)
(***************************************************************************)
\* the defaults of the chart options
NewChart ==
    [type |-> "line", xAxis |-> JStr(""), yAxis |-> <<>>,
     title |-> Undefined, showLegend |-> TRUE, showGrid |-> TRUE,
     stacked |-> FALSE, curve |-> "smooth"]

\* removes the empty strings of a list
RECURSIVE NonEmpty(_)
NonEmpty(xs) ==
    IF xs = <<>> THEN <<>>
    ELSE (IF xs[1] = "" THEN <<>> ELSE <<xs[1]>>) \o NonEmpty(Tail(xs))

\* SplitSeries without the trim and the filter: value.split(',')
SplitSeries_splitOnly(s) ==
    LET parts == Split(Chars(s), ",")
    IN  [k \in 1..Len(parts) |-> Text(parts[k])]

\* value.split(',').map(s => s.trim()).filter(s => s.length > 0)
SplitSeries(s) ==
    LET parts == Split(Chars(s), ",")
    IN  NonEmpty([k \in 1..Len(parts) |-> Text(Trim(parts[k]))])

\* whether value.split can be called: value is undefined when the clause
\* is key="" or key='', and the call is then a TypeError
CanSplit(value) == value.t = "string"

\* the switch (key) of the key=value loop
SetChartOption(chart, key, value) ==
    CASE key = "type" ->
            IF value \in {JStr("line"), JStr("bar"), JStr("pie"),
                          JStr("area"), JStr("scatter")}
            THEN [chart EXCEPT !.type = value.v] ELSE chart
      [] key \in {"x", "xAxis"} -> [chart EXCEPT !.xAxis = value]
      [] key \in {"y", "yAxis"} ->
            IF ~CanSplit(value) THEN Threw("TypeError")
            ELSE [chart EXCEPT !.yAxis = SplitSeries(value.v)]
      [] key = "title" -> [chart EXCEPT !.title = value]
      [] key \in {"legend", "showLegend"} ->
            [chart EXCEPT !.showLegend = (value = JStr("true"))]
      [] key \in {"grid", "showGrid"} ->
            [chart EXCEPT !.showGrid = (value = JStr("true"))]
      [] key = "stacked" -> [chart EXCEPT !.stacked = (value = JStr("true"))]
      [] key = "curve" ->
            IF value \in {JStr("smooth"), JStr("straight")}
            THEN [chart EXCEPT !.curve = value.v] ELSE chart
      [] OTHER -> chart

\* the key=value loop; an exception ends it
RECURSIVE ApplyChartOptions(_, _)
ApplyChartOptions(chart, ms) ==
    IF ms = <<>> \/ IsThrow(chart) THEN chart
    ELSE ApplyChartOptions(SetChartOption(chart, ms[1].key, ms[1].value),
                           Tail(ms))

\* directive.match(/@chart\s+(.*)/) tried at index i
ChartHeadAt(cs, i) ==
    LET a == i + 6
        w == SkipIn(cs, a, Space)
    IN  IF StartsAt(cs, i, Chars("@chart")) /\ w > a
        THEN [ok |-> TRUE,
              optionsStr |-> SubSeq(cs, w, SkipNotIn(cs, w, LineTerm) - 1)]
        ELSE NoMatch

RECURSIVE ChartHead(_, _)
ChartHead(cs, from) ==
    IF from > Len(cs) THEN NoMatch
    ELSE OrMatch(ChartHeadAt(cs, from), ChartHead(cs, from + 1))

\* if (!xAxis || yAxis.length === 0) return null
ChartComplete(chart) == Truthy(chart.xAxis) /\ Len(chart.yAxis) # 0

\* what the key=value loop leaves: the exception it raised, Null for an
\* incomplete chart, or the chart
ChartResult(chart) ==
    IF IsThrow(chart) THEN chart
    ELSE IF ~ChartComplete(chart) THEN Null
    ELSE chart

\* the chart of a directive, Null when the directive is rejected or
\* incomplete, the exception when it raised one
parseChartDirective(directive) ==
    LET match == ChartHead(directive, 1)
    IN  IF ~match.ok THEN Null
        ELSE ChartResult(ApplyChartOptions(NewChart,
                             OptionMatches(match.optionsStr, 1)))

(***************************************************************************)
(* SqlCommentParser.parseOptions                                           *)
(***************************************************************************)
\* CommentMatch with the pattern /\/\*([\s\S]*?)\*\//, which takes any block
\* comment
CommentMatch_anyBlock(cs) ==
    LET i == IndexOf(cs, Chars("/*"), 1)
        j == IF i = 0 THEN 0 ELSE IndexOf(cs, Chars("*/"), i + 2)
    IN  IF i = 0 \/ j = 0 THEN NoMatch
        ELSE [ok |-> TRUE, content |-> SubSeq(cs, i + 2, j - 1)]

\* CommentMatch with the greedy pattern /\/\*\*([\s\S]*)\*\//, which runs to
\* the last "*/" of the text
CommentMatch_greedy(cs) ==
    LET i == IndexOf(cs, Chars("/**"), 1)
        ends == IF i = 0 THEN {}
                ELSE {j \in (i + 3)..Len(cs) : StartsAt(cs, j, Chars("*/"))}
    IN  IF ends = {} THEN NoMatch
        ELSE [ok |-> TRUE, content |-> SubSeq(cs, i + 3, Max(ends) - 1)]

\* sql.match(/\/\*\*([\s\S]*?)\*\//): the text between the first "/**" and
\* the first "*/" after it
CommentMatch(cs) ==
    LET i == IndexOf(cs, Chars("/**"), 1)
        j == IF i = 0 THEN 0 ELSE IndexOf(cs, Chars("*/"), i + 3)
    IN  IF i = 0 \/ j = 0 THEN NoMatch
        ELSE [ok |-> TRUE, content |-> SubSeq(cs, i + 3, j - 1)]

\* commentContent.match(/@kw\s+([^\n]+)/g): the directives from left to
\* right.  \s+ takes the whole run of white space and gives characters back
\* until one that is not a line feed is left for [^\n]+.
RECURSIVE DirectiveMatches(_, _, _)
\* starts: the indexes where [^\n]+ can begin; the directive runs from the
\* keyword to the end of the line
DirectiveFrom(cs, kw, i, starts) ==
    LET e == SkipNotIn(cs, Max(starts), {"\n"}) - 1
    IN  IF starts = {} THEN DirectiveMatches(cs, kw, i + 1)
        ELSE <<SubSeq(cs, i, e)>> \o DirectiveMatches(cs, kw, e + 1)

\* the keyword found at index i (0: not found)
DirectiveAt(cs, kw, i) ==
    IF i = 0 THEN <<>>
    ELSE DirectiveFrom(cs, kw, i,
             {b \in (i + Len(kw) + 1)..SkipIn(cs, i + Len(kw), Space) :
                  b <= Len(cs) /\ cs[b] # "\n"})

DirectiveMatches(cs, kw, from) == DirectiveAt(cs, kw, IndexOf(cs, kw, from))

NewOptions == [columns |-> <<>>, rowStyles |-> <<>>, chart |-> Undefined]

\* AddColumn with a merge in place of set: a field the new record leaves
\* unset keeps the value of the record already in the map
AddColumn_merge(columns, columnOption) ==
    IF IsNull(columnOption) THEN columns
    ELSE IF columnOption.columnName \notin DOMAIN columns
    THEN (columnOption.columnName :> columnOption) @@ columns
    ELSE (columnOption.columnName :>
              [f \in DOMAIN columnOption |->
                  IF /\ f # "columnName"
                     /\ columnOption[f] = (IF f = "conditionalStyles"
                                           THEN <<>> ELSE Undefined)
                  THEN columns[columnOption.columnName][f]
                  ELSE columnOption[f]]) @@ columns

\* if (columnOption) options.columns.set(columnOption.columnName, ...)
AddColumn(columns, columnOption) ==
    IF IsNull(columnOption) THEN columns
    ELSE (columnOption.columnName :> columnOption) @@ columns

\* the loop over columnDirectives
RECURSIVE FoldColumns(_, _)
FoldColumns(columns, directives) ==
    IF directives = <<>> THEN columns
    ELSE FoldColumns(AddColumn(columns, parseColumnDirective(directives[1])),
                     Tail(directives))

\* AddRow with unshift in place of push
AddRow_prepend(rowStyles, rowRule) ==
    IF IsNull(rowRule) THEN rowStyles ELSE <<rowRule>> \o rowStyles

\* if (rowRule) options.rowStyles.push(rowRule)
AddRow(rowStyles, rowRule) ==
    IF IsNull(rowRule) THEN rowStyles ELSE Append(rowStyles, rowRule)

\* the loop over rowDirectives
RECURSIVE FoldRows(_, _)
FoldRows(rowStyles, directives) ==
    IF directives = <<>> THEN rowStyles
    ELSE FoldRows(AddRow(rowStyles, parseRowDirective(directives[1])),
                  Tail(directives))

\* the chart of the first of the @chart directives
ChartOfFirst(chartMatches) ==
    IF chartMatches = <<>> THEN Null
    ELSE parseChartDirective(chartMatches[1])

\* the option set of a comment whose @chart directive gave chartOption
OptionsWith(content, chartOption) ==
    IF IsThrow(chartOption) THEN chartOption
    ELSE [columns |-> FoldColumns(<<>>,
              DirectiveMatches(content, Chars("@column"), 1)),
          rowStyles |-> FoldRows(<<>>,
              DirectiveMatches(content, Chars("@row"), 1)),
          chart |-> IF IsNull(chartOption) THEN Undefined ELSE chartOption]

\* the option set of the first comment of the text
OptionsOf(commentMatch) ==
    IF ~commentMatch.ok THEN NewOptions
    ELSE OptionsWith(commentMatch.content,
                     ChartOfFirst(DirectiveMatches(commentMatch.content,
                                                   Chars("@chart"), 1)))

\* the option set of a SQL text, or the exception the call raised
parseOptions(sql) == OptionsOf(CommentMatch(Chars(sql)))

(***************************************************************************)
(* SqlCommentParser.formatValue and formatDateTime                         *)
(***************************************************************************)
\* a / 10^e rounded to digits fractional digits and scaled by 10^digits, a
\* tie going to the larger magnitude.  (toFixed rounds the binary value of
\* the number; the numbers considered that tie are binary fractions, which
\* the binary value holds exactly.)
RoundedTo(a, e, digits) ==
    IF digits >= e THEN a * Pow10(digits - e)
    ELSE (a + (Pow10(e - digits) \div 2)) \div Pow10(e - digits)

\* the sign, the integer part and the digits fractional digits of ds
FixedChars(neg, ds, digits) ==
    (IF neg THEN <<"-">> ELSE <<>>)
        \o SubSeq(ds, 1, Len(ds) - digits)
        \o (IF digits = 0 THEN <<>>
            ELSE <<".">> \o SubSeq(ds, Len(ds) - digits + 1, Len(ds)))

\* num.toFixed(digits) for 0 <= digits <= 100
ToFixedChars(v, digits) ==
    FixedChars(v.m < 0,
               PadStart(NatChars(RoundedTo(Abs(v.m), v.e, digits)),
                        digits + 1),
               digits)

\* ToIntegerOrInfinity of the argument of toFixed: NaN counts as 0
FixedDigits(decimal) == IF decimal.t = "number" THEN decimal.m ELSE 0

\* Number.prototype.toFixed raises a RangeError outside 0..100
FixedInRange(digits) == digits >= 0 /\ digits <= 100

\* CommaAfter for the pattern /(?=(\d{3})+(?!\d))/, without the \B
CommaAfter_noBoundary(cs, k) ==
    LET n == SkipIn(cs, k + 1, Digit) - (k + 1)
    IN  n > 0 /\ n % 3 = 0

\* the positions k (between cs[k] and cs[k + 1]) that
\* /\B(?=(\d{3})+(?!\d))/ matches
CommaAfter(cs, k) ==
    LET left == k >= 1 /\ cs[k] \in Word
        right == k + 1 <= Len(cs) /\ cs[k + 1] \in Word
        n == SkipIn(cs, k + 1, Digit) - (k + 1)
    IN  left = right /\ n > 0 /\ n % 3 = 0

\* parts[0].replace(/\B(?=(\d{3})+(?!\d))/g, ',')
RECURSIVE GroupDigits(_, _)
GroupDigits(cs, k) ==
    IF k > Len(cs) THEN <<>>
    ELSE (IF CommaAfter(cs, k) THEN <<",">> ELSE <<>>)
             \o (IF k + 1 <= Len(cs) THEN <<cs[k + 1]>> ELSE <<>>)
             \o GroupDigits(cs, k + 1)

\* the comma branch: split on '.', group the first part, join with '.'
WithCommas(cs) ==
    LET parts == Split(cs, ".")
        grouped == [k \in 1..Len(parts) |->
                        Text(IF k = 1 THEN GroupDigits(parts[1], 0)
                             ELSE parts[k])]
    IN  Join(grouped, ".")

InvalidDate == [valid |-> FALSE]

\* the value of two digits at index i, -1 when they are not digits
TwoDigits(cs, i) ==
    IF cs[i] \in Digit /\ cs[i + 1] \in Digit THEN DecVal(cs, i, i + 2)
    ELSE 0 - 1

\* new Date(s) for the date-time form YYYY-MM-DDTHH:mm:ss, which is read as
\* local time; for any other text the result is the host's (hostDate)
ParseDate(cs, hostDate) ==
    LET year == DecVal(cs, 1, 5)
        month == TwoDigits(cs, 6)
        day == TwoDigits(cs, 9)
        hours == TwoDigits(cs, 12)
        minutes == TwoDigits(cs, 15)
        seconds == TwoDigits(cs, 18)
    IN  IF /\ Len(cs) = 19
           /\ \A k \in 1..4 : cs[k] \in Digit
           /\ cs[5] = "-" /\ cs[8] = "-" /\ cs[11] = "T"
           /\ cs[14] = ":" /\ cs[17] = ":"
           /\ month \in 1..12 /\ day \in 1..28 /\ hours \in 0..23
           /\ minutes \in 0..59 /\ seconds \in 0..59
        THEN [valid |-> TRUE, year |-> year, month |-> month, day |-> day,
              hours |-> hours, minutes |-> minutes, seconds |-> seconds]
        ELSE hostDate

\* ReplaceFirst with replaceAll in place of replace: every occurrence
RECURSIVE ReplaceFirst_all(_, _, _)
ReplaceFirst_all(cs, lit, rep) ==
    LET i == IndexOf(cs, lit, 1)
    IN  IF i = 0 THEN cs
        ELSE SubSeq(cs, 1, i - 1) \o rep
                 \o ReplaceFirst_all(SubSeq(cs, i + Len(lit), Len(cs)),
                                     lit, rep)

\* s.replace(lit, rep): the first occurrence only
ReplaceFirst(cs, lit, rep) ==
    LET i == IndexOf(cs, lit, 1)
    IN  IF i = 0 THEN cs
        ELSE SubSeq(cs, 1, i - 1) \o rep
                 \o SubSeq(cs, i + Len(lit), Len(cs))

formatDateTime(date, pattern) ==
    LET p1 == ReplaceFirst(pattern, Chars("yyyy"), NatChars(date.year))
        p2 == ReplaceFirst(p1, Chars("MM"), PadStart(NatChars(date.month), 2))
        p3 == ReplaceFirst(p2, Chars("dd"), PadStart(NatChars(date.day), 2))
        p4 == ReplaceFirst(p3, Chars("HH"), PadStart(NatChars(date.hours), 2))
        p5 == ReplaceFirst(p4, Chars("mm"),
                           PadStart(NatChars(date.minutes), 2))
    IN  Text(ReplaceFirst(p5, Chars("ss"),
                          PadStart(NatChars(date.seconds), 2)))

\* the comma branch of the number format
Grouped(formatted, options) ==
    IF Truthy(options.comma) THEN JStr(WithCommas(formatted))
    ELSE JStr(Text(formatted))

\* FormatNumber with the number's own text for a value that is no number
FormatNumber_nanText(strValue, num, options) ==
    IF num = NaN THEN JStr("NaN")
    ELSE IF options.decimal = Undefined THEN Grouped(NumChars(num), options)
    ELSE IF ~FixedInRange(FixedDigits(options.decimal))
    THEN Threw("RangeError")
    ELSE Grouped(ToFixedChars(num, FixedDigits(options.decimal)), options)

\* the number branch: strValue when it is no number, else the number with
\* the decimal count and the commas asked for
FormatNumber(strValue, num, options) ==
    IF num = NaN THEN JStr(Text(strValue))
    ELSE IF options.decimal = Undefined THEN Grouped(NumChars(num), options)
    ELSE IF ~FixedInRange(FixedDigits(options.decimal))
    THEN Threw("RangeError")
    ELSE Grouped(ToFixedChars(num, FixedDigits(options.decimal)), options)

\* IsMissing with the test value === null alone
IsMissing_nullOnly(value) == value = Null

\* value === null || value === undefined
IsMissing(value) == value = Null \/ value = Undefined

\* if (!isNaN(date.getTime())) return this.formatDateTime(date, pattern)
FormatDate(strValue, date, pattern) ==
    IF date.valid THEN JStr(formatDateTime(date, pattern))
    ELSE JStr(Text(strValue))

\* formatValue after const strValue = String(value)
FormatString(strValue, options, hostDate) ==
    IF options.format = JStr("number")
    THEN FormatNumber(strValue, ParseFloat(strValue), options)
    ELSE IF options.format = JStr("datetime") /\ Truthy(options.pattern)
    THEN FormatDate(strValue, ParseDate(strValue, hostDate),
                    ToStringChars(options.pattern))
    ELSE JStr(Text(strValue))

\* the string formatValue returns, or the exception it raised; hostDate is
\* what new Date gives for a text outside the date-time form
formatValue(value, options, hostDate) ==
    IF IsMissing(value) THEN JStr("")
    ELSE FormatString(ToStringChars(value), options, hostDate)

(***************************************************************************)
(* SqlCommentParser.generateColumnStyle, generateConditionalStyle and      *)
(* generateRowStyle                                                        *)
(***************************************************************************)
\* `name: ${v}`
Decl(name, v) == name \o ": " \o Text(ToStringChars(v))

\* if (v) styles.push(`name: ${v}`)
DeclIf(name, v) == IF Truthy(v) THEN <<Decl(name, v)>> ELSE <<>>

generateColumnStyle(options) ==
    JStr(Join(DeclIf("text-align", options.align)
             \o (IF Truthy(options.width)
                 THEN <<Decl("width", options.width),
                        Decl("min-width", options.width)>>
                 ELSE <<>>)
             \o DeclIf("background-color", options.backgroundColor)
             \o DeclIf("color", options.color)
             \o DeclIf("font-weight", options.fontWeight),
         "; "))

\* typeof value === 'number' ? value : parseFloat(String(value))
ToNumValue(value) ==
    IF TypeOfNumber(value) THEN value ELSE ParseFloat(ToStringChars(value))

\* NumConditionMet with <= and >= read as < and >
NumConditionMet_strictOnly(operator, a, b) ==
    CASE operator \in {"<", "<="} -> NumLess(a, b)
      [] operator \in {">", ">="} -> NumLess(b, a)
      [] operator = "==" -> a = b
      [] operator = "!=" -> a # b
      [] OTHER -> FALSE

\* the switch (rule.operator) on two numbers
NumConditionMet(operator, a, b) ==
    CASE operator = "<" -> NumLess(a, b)
      [] operator = ">" -> NumLess(b, a)
      [] operator = "<=" -> ~NumLess(b, a)
      [] operator = ">=" -> ~NumLess(a, b)
      [] operator = "==" -> a = b
      [] operator = "!=" -> a # b
      [] OTHER -> FALSE

\* the declarations a rule that matched pushes
RuleDecls(styles) ==
    DeclIf("color", styles.color)
        \o DeclIf("background-color", styles.backgroundColor)
        \o DeclIf("font-weight", styles.fontWeight)

\* if (!isNaN(numValue)) for (const rule of options.conditionalStyles)
RECURSIVE ConditionalDecls(_, _)
ConditionalDecls(numValue, rules) ==
    IF numValue = NaN \/ rules = <<>> THEN <<>>
    ELSE (IF /\ IsNumber(rules[1].value)
             /\ NumConditionMet(rules[1].operator, numValue, rules[1].value)
          THEN RuleDecls(rules[1].styles) ELSE <<>>)
             \o ConditionalDecls(numValue, Tail(rules))

\* generateConditionalStyle without the else: the static styles are pushed
\* after the conditional ones in every case
generateConditionalStyle_alwaysStatic(value, options) ==
    JStr(Join(DeclIf("text-align", options.align)
             \o ConditionalDecls(ToNumValue(value), options.conditionalStyles)
             \o DeclIf("background-color", options.backgroundColor)
             \o DeclIf("color", options.color)
             \o DeclIf("font-weight", options.fontWeight),
         "; "))

generateConditionalStyle(value, options) ==
    JStr(Join(DeclIf("text-align", options.align)
             \o (IF Len(options.conditionalStyles) > 0
                 THEN ConditionalDecls(ToNumValue(value),
                                       options.conditionalStyles)
                 ELSE DeclIf("background-color", options.backgroundColor)
                          \o DeclIf("color", options.color)
                          \o DeclIf("font-weight", options.fontWeight)),
         "; "))

\* the UTF-16 code unit of a character (the characters of the texts
\* considered)
CharCode(ch) ==
    CASE ch = "\t" -> 9
      [] ch = "\n" -> 10
      [] ch = "\f" -> 12
      [] ch = "\r" -> 13
      [] ch \in Lower \cup {"{", "|", "}", "~"} ->
            LET table == Chars("abcdefghijklmnopqrstuvwxyz{|}~")
            IN  96 + CHOOSE k \in 1..Len(table) : table[k] = ch
      [] OTHER ->
            LET table == Chars(" !\"#$%&'()*+,-./0123456789:;<=>?@ABCDEFGHIJKLMNOPQRSTUVWXYZ[\\]^_")
            IN  31 + CHOOSE k \in 1..Len(table) : table[k] = ch

\* a < b for two strings: by code units, a proper prefix being smaller
RECURSIVE StrLess(_, _)
StrLess(a, b) ==
    IF b = <<>> THEN FALSE
    ELSE IF a = <<>> THEN TRUE
    ELSE IF a[1] # b[1] THEN CharCode(a[1]) < CharCode(b[1])
    ELSE StrLess(Tail(a), Tail(b))

\* the switch (rule.operator) on two strings
StrConditionMet(operator, a, b) ==
    CASE operator = "==" -> a = b
      [] operator = "!=" -> a # b
      [] operator = "<" -> StrLess(a, b)
      [] operator = ">" -> StrLess(b, a)
      [] operator = "<=" -> ~StrLess(b, a)
      [] operator = ">=" -> ~StrLess(a, b)
      [] OTHER -> FALSE

\* rowData[rule.columnName]
CellOf(rowData, columnName) ==
    IF columnName \in DOMAIN rowData THEN rowData[columnName] ELSE Undefined

\* whether the rule applies to the row: a missing cell never matches, a
\* numeric rule compares numbers and never matches a cell that is not one,
\* any other rule compares strings
RowConditionMet(rule, cellValue) ==
    IF IsMissing(cellValue) THEN FALSE
    ELSE IF TypeOfNumber(rule.value)
    THEN /\ ToNumValue(cellValue) # NaN
         /\ NumConditionMet(rule.operator, ToNumValue(cellValue), rule.value)
    ELSE StrConditionMet(rule.operator, ToStringChars(cellValue),
                         ToStringChars(rule.value))

\* RowDecls with break in place of continue: the first rule whose cell is
\* missing, or is not a number when the rule is numeric, ends the loop
RECURSIVE RowDecls_stopAtSkip(_, _)
RowDecls_stopAtSkip(rowData, rules) ==
    IF rules = <<>> THEN <<>>
    ELSE IF \/ IsMissing(CellOf(rowData, rules[1].columnName))
            \/ /\ TypeOfNumber(rules[1].value)
               /\ ToNumValue(CellOf(rowData, rules[1].columnName)) = NaN
    THEN <<>>
    ELSE (IF RowConditionMet(rules[1], CellOf(rowData, rules[1].columnName))
          THEN RuleDecls(rules[1].styles) ELSE <<>>)
             \o RowDecls_stopAtSkip(rowData, Tail(rules))

\* for (const rule of rules)
RECURSIVE RowDecls(_, _)
RowDecls(rowData, rules) ==
    IF rules = <<>> THEN <<>>
    ELSE (IF RowConditionMet(rules[1], CellOf(rowData, rules[1].columnName))
          THEN RuleDecls(rules[1].styles) ELSE <<>>)
             \o RowDecls(rowData, Tail(rules))

generateRowStyle(rowData, rules) ==
    JStr(Join(RowDecls(rowData, rules), "; "))

(***************************************************************************)
(* SqlValidator: the read-only check a query passes before it is run.      *)
(***************************************************************************)
ALLOWED_KEYWORDS ==
    {"SELECT", "SHOW", "DESC", "DESCRIBE", "EXPLAIN", "USE", "WITH"}

FORBIDDEN_KEYWORDS ==
    {"INSERT", "UPDATE", "DELETE", "DROP", "TRUNCATE", "ALTER", "CREATE",
     "LOAD", "REPLACE", "GRANT", "REVOKE", "RENAME", "CALL", "EXECUTE",
     "EXEC"}

\* s.toUpperCase()
ToUpperCase(cs) ==
    [k \in 1..Len(cs) |->
        IF cs[k] \in Lower
        THEN Chars("ABCDEFGHIJKLMNOPQRSTUVWXYZ")[CharCode(cs[k]) - 96]
        ELSE cs[k]]

\* sql.split(';').filter(q => q.trim().length > 0)
RECURSIVE NonBlank(_)
NonBlank(qs) ==
    IF qs = <<>> THEN <<>>
    ELSE (IF Trim(qs[1]) = <<>> THEN <<>> ELSE <<qs[1]>>)
             \o NonBlank(Tail(qs))

splitQueries(sql) == NonBlank(Split(sql, ";"))

\* cleaned.replace(/--[^\n]*/g, '') and cleaned.replace(/#[^\n]*/g, ''):
\* every mark is taken out with the rest of its line
RECURSIVE RemoveLineComments(_, _)
RemoveLineComments(cs, mark) ==
    IF IndexOf(cs, mark, 1) = 0 THEN cs
    ELSE SubSeq(cs, 1, IndexOf(cs, mark, 1) - 1)
             \o RemoveLineComments(
                    SubSeq(cs, SkipNotIn(cs, IndexOf(cs, mark, 1), {"\n"}),
                           Len(cs)),
                    mark)

\* the index of the first slash-star that a star-slash closes, 0 when
\* there is none
BlockCommentStart(cs) ==
    IF IndexOf(cs, Chars("/*"), 1) = 0 THEN 0
    ELSE IF IndexOf(cs, Chars("*/"), IndexOf(cs, Chars("/*"), 1) + 2) = 0
    THEN 0
    ELSE IndexOf(cs, Chars("/*"), 1)

\* cleaned.replace(/\/\*[\s\S]*?\*\//g, ''): every closed block comment
\* is taken out
RECURSIVE RemoveBlockComments(_)
RemoveBlockComments(cs) ==
    IF BlockCommentStart(cs) = 0 THEN cs
    ELSE SubSeq(cs, 1, BlockCommentStart(cs) - 1)
             \o RemoveBlockComments(
                    SubSeq(cs,
                           IndexOf(cs, Chars("*/"),
                                   BlockCommentStart(cs) + 2) + 2,
                           Len(cs)))

\* cleaned.match(/^(\w+)/i): the word the text starts with, in upper case,
\* Null when it starts with no word
FirstWord(cleaned) ==
    IF SkipIn(cleaned, 1, Word) = 1 THEN Null
    ELSE JStr(Text(ToUpperCase(SubSeq(cleaned, 1,
                                      SkipIn(cleaned, 1, Word) - 1))))

extractFirstKeyword(sql) ==
    FirstWord(Trim(RemoveBlockComments(
        RemoveLineComments(RemoveLineComments(sql, Chars("--")),
                           Chars("#")))))

\* the result of validate for a query whose first keyword is not accepted
Rejected(firstKeyword) ==
    IF firstKeyword \in FORBIDDEN_KEYWORDS
    THEN [isValid |-> FALSE,
          error |-> JStr("Query type \"" \o firstKeyword
                             \o "\" is not allowed. Only read-only queries (SELECT, SHOW, DESC, EXPLAIN) are permitted.")]
    ELSE [isValid |-> FALSE,
          error |-> JStr("Unknown or unsupported query type \""
                             \o firstKeyword
                             \o "\". Only read-only queries (SELECT, SHOW, DESC, EXPLAIN) are permitted.")]

\* for (const query of queries): a query without a first keyword is passed
\* over, the first query whose keyword is forbidden or not allowed ends the
\* loop
RECURSIVE ValidateQueries(_)
\* the query with first keyword firstKeyword, then the queries rest
ValidateQuery(firstKeyword, rest) ==
    IF IsNull(firstKeyword) THEN ValidateQueries(rest)
    ELSE IF firstKeyword.v \in FORBIDDEN_KEYWORDS
            \/ firstKeyword.v \notin ALLOWED_KEYWORDS
    THEN Rejected(firstKeyword.v)
    ELSE ValidateQueries(rest)

ValidateQueries(queries) ==
    IF queries = <<>> THEN [isValid |-> TRUE, error |-> Undefined]
    ELSE ValidateQuery(extractFirstKeyword(Trim(queries[1])), Tail(queries))

validate(text) ==
    IF Trim(Chars(text)) = <<>>
    THEN [isValid |-> FALSE, error |-> JStr("SQL query is empty")]
    ELSE ValidateQueries(splitQueries(Chars(text)))

(***************************************************************************)
(* The state: a query text being written in the editor, the option set    *)
(* parseOptions returned for it, and the last call that rendered a cell or *)
(* a row with those options; the data of the ConnectionProfileManager and  *)
(* its calls that wait for the secret storage.                             *)
(***************************************************************************)
VARIABLES
    sql,        \* the SQL text
    head,       \* the text the session started from
    typed,      \* the clauses and directives typed after it, in order
    phase,      \* "open": inside the comment; "closed": after its end
    options,    \* NotParsed, the option set of sql, or the exception
    call,       \* the last rendering call and its result
    profilesData,   \* ConnectionProfileManager.profilesData
    pendingCalls,   \* the manager's calls that wait at their await
    lastCall,       \* the manager's call that ended last, and how
    currentConnection,  \* DatabaseClientPanel._currentConnection: 0 for
                        \* null, or the number of a connection
    opened,         \* the connections createConnection returned, in order
    handlers,       \* the bag of message handlers that wait at an await
    sent,           \* the texts handed to connection.executeQuery
    posted          \* the last message posted to the webview

parserVars == <<sql, head, typed, phase, options, call>>

managerVars == <<profilesData, pendingCalls, lastCall>>

panelVars == <<currentConnection, opened, handlers, sent, posted>>

vars == <<parserVars, managerVars, panelVars>>

NotParsed == [t |-> "none"]

NoCall == [fn |-> "none", result |-> Undefined]

\* the manager of a workspace without a connections file, and no call
NoProfiles ==
    /\ profilesData = [connections |-> <<>>, activeConnectionId |-> Null]
    /\ pendingCalls = {}
    /\ lastCall = NoCall

\* the most handlers of the panel that wait at an await at one time
MaxHandlers == 2

\* the panel after its construction: no connection, no waiting handler,
\* nothing sent to a database and nothing posted
PanelIdle ==
    /\ currentConnection = 0
    /\ opened = <<>>
    /\ handlers = EmptyBag
    /\ sent = {}
    /\ posted = [type |-> "none"]

\* whether parseOptions returned an option set
Parsed == "columns" \in DOMAIN options

\* the most clauses or directives typed into one text
MaxTyped == 3

InitFrom(heads) ==
    /\ head \in heads
    /\ sql = head
    /\ typed = <<>>
    /\ phase = "open"
    /\ options = NotParsed
    /\ call = NoCall
    /\ NoProfiles
    /\ PanelIdle

\* the user types one more clause (or directive) at the end of the text
Type(c) ==
    /\ phase = "open"
    /\ options = NotParsed
    /\ Len(typed) < MaxTyped
    /\ sql' = sql \o c.text
    /\ typed' = Append(typed, c)
    /\ UNCHANGED <<head, phase, options, call>>
    /\ UNCHANGED <<managerVars, panelVars>>

\* the user ends the comment and writes the query
CloseComment ==
    /\ phase = "open"
    /\ options = NotParsed
    /\ sql' = sql \o "\n */\nSELECT 1"
    /\ phase' = "closed"
    /\ UNCHANGED <<head, typed, options, call>>
    /\ UNCHANGED <<managerVars, panelVars>>

\* the user writes more text after the end of the comment
TypeAfter(c) ==
    /\ phase = "closed"
    /\ options = NotParsed
    /\ Len(typed) < MaxTyped
    /\ sql' = sql \o c.text
    /\ typed' = Append(typed, c)
    /\ UNCHANGED <<head, phase, options, call>>
    /\ UNCHANGED <<managerVars, panelVars>>

\* the query is run: its display options are parsed
ParseOptions ==
    /\ options = NotParsed
    /\ options' = parseOptions(sql)
    /\ UNCHANGED <<sql, head, typed, phase, call>>
    /\ UNCHANGED <<managerVars, panelVars>>

\* a cell of column columnName is formatted with the parsed options
FormatValue(columnName, value, hostDate) ==
    /\ Parsed
    /\ columnName \in DOMAIN options.columns
    /\ call' = [fn |-> "formatValue", value |-> value, hostDate |-> hostDate,
                result |-> formatValue(value, options.columns[columnName],
                                       hostDate)]
    /\ UNCHANGED <<sql, head, typed, phase, options>>
    /\ UNCHANGED <<managerVars, panelVars>>

\* a cell of column columnName is styled with the parsed options
GenerateConditionalStyle(columnName, value) ==
    /\ Parsed
    /\ columnName \in DOMAIN options.columns
    /\ call' = [fn |-> "generateConditionalStyle", value |-> value,
                result |-> generateConditionalStyle(
                               value, options.columns[columnName])]
    /\ UNCHANGED <<sql, head, typed, phase, options>>
    /\ UNCHANGED <<managerVars, panelVars>>

\* the header cell of column columnName is styled with the parsed options
GenerateColumnStyle(columnName) ==
    /\ Parsed
    /\ columnName \in DOMAIN options.columns
    /\ call' = [fn |-> "generateColumnStyle", value |-> Undefined,
                result |-> generateColumnStyle(options.columns[columnName])]
    /\ UNCHANGED <<sql, head, typed, phase, options>>
    /\ UNCHANGED <<managerVars, panelVars>>

\* a row is styled with the parsed row rules
GenerateRowStyle(rowData) ==
    /\ Parsed
    /\ call' = [fn |-> "generateRowStyle", value |-> rowData,
                result |-> generateRowStyle(rowData, options.rowStyles)]
    /\ UNCHANGED <<sql, head, typed, phase, options>>
    /\ UNCHANGED <<managerVars, panelVars>>

\* the text is checked before it is run
Validate ==
    /\ call' = [fn |-> "validate", value |-> sql, result |-> validate(sql)]
    /\ UNCHANGED <<sql, head, typed, phase, options>>
    /\ UNCHANGED <<managerVars, panelVars>>

(***************************************************************************)
(* ConnectionProfileManager: addProfile, updateProfile, deleteProfile and   *)
(* setActiveConnection.  A call runs up to its await on the secret storage *)
(* and goes on when the storage has answered; the storage and the write of *)
(* the connections file may fail.                                          *)
(***************************************************************************)
\* the most calls that wait at their await at one time
MaxPending == 2

\* connections.findIndex(p => p.id === id), counted from 1; 0 when there
\* is none
findIndex(id) ==
    IF \E k \in 1..Len(profilesData.connections) :
           profilesData.connections[k].id = id
    THEN Min({k \in 1..Len(profilesData.connections) :
                  profilesData.connections[k].id = id})
    ELSE 0

\* the call fn for the profile id has ended, by a throw or a return
CallEnded(fn, id, threw) ==
    lastCall' = [fn |-> fn, id |-> id, threw |-> threw, wasActive |-> FALSE]

\* the call waits for the secret storage
CallWaits(fn, id) ==
    /\ Cardinality(pendingCalls) < MaxPending
    /\ pendingCalls' = pendingCalls \cup {[fn |-> fn, id |-> id]}
    /\ UNCHANGED lastCall

\* addProfile up to await this.savePassword(profile.id, password)
AddProfile(profile) ==
    /\ IF findIndex(profile.id) # 0
       THEN /\ CallEnded("addProfile", profile.id, TRUE)
            /\ UNCHANGED <<profilesData, pendingCalls>>
       ELSE /\ profilesData' = [profilesData EXCEPT
                                    !.connections = Append(@, profile)]
            /\ CallWaits("addProfile", profile.id)
    /\ UNCHANGED <<parserVars, panelVars>>

\* addProfile after the await: stored says whether the secret storage took
\* the password, saved and savedActive whether the two writes of the file
\* went through
AddProfileResume(c, stored, saved, savedActive) ==
    /\ c \in pendingCalls
    /\ c.fn = "addProfile"
    /\ pendingCalls' = pendingCalls \ {c}
    /\ IF ~stored \/ ~saved \/ Len(profilesData.connections) # 1
       THEN /\ CallEnded(c.fn, c.id, ~stored \/ ~saved)
            /\ UNCHANGED profilesData
       ELSE IF findIndex(c.id) = 0
       THEN /\ CallEnded(c.fn, c.id, TRUE)
            /\ UNCHANGED profilesData
       ELSE /\ profilesData' = [profilesData EXCEPT
                                    !.activeConnectionId = JStr(c.id)]
            /\ CallEnded(c.fn, c.id, ~savedActive)
    /\ UNCHANGED <<parserVars, panelVars>>

\* updateProfile up to await this.savePassword(profile.id, password), or to
\* its end when no password is given
UpdateProfile(profile, withPassword, saved) ==
    /\ IF findIndex(profile.id) = 0
       THEN /\ CallEnded("updateProfile", profile.id, TRUE)
            /\ UNCHANGED <<profilesData, pendingCalls>>
       ELSE /\ profilesData' = [profilesData EXCEPT
                                    !.connections[findIndex(profile.id)]
                                        = profile]
            /\ IF withPassword
               THEN CallWaits("updateProfile", profile.id)
               ELSE /\ CallEnded("updateProfile", profile.id, ~saved)
                    /\ UNCHANGED pendingCalls
    /\ UNCHANGED <<parserVars, panelVars>>

\* updateProfile after the await
UpdateProfileResume(c, stored, saved) ==
    /\ c \in pendingCalls
    /\ c.fn = "updateProfile"
    /\ pendingCalls' = pendingCalls \ {c}
    /\ CallEnded(c.fn, c.id, ~stored \/ ~saved)
    /\ UNCHANGED <<profilesData, parserVars, panelVars>>

\* deleteProfile up to await this.deletePassword(id): the profile is
\* spliced out of connections before the await
DeleteProfile(id) ==
    /\ IF findIndex(id) = 0
       THEN /\ CallEnded("deleteProfile", id, TRUE)
            /\ UNCHANGED <<profilesData, pendingCalls>>
       ELSE /\ profilesData' = [profilesData EXCEPT !.connections =
                   SubSeq(@, 1, findIndex(id) - 1)
                       \o SubSeq(@, findIndex(id) + 1, Len(@))]
            /\ CallWaits("deleteProfile", id)
    /\ UNCHANGED <<parserVars, panelVars>>

\* deleteProfile after the await: deleted says whether the secret storage
\* removed the password
DeleteProfileResume(c, deleted, saved) ==
    /\ c \in pendingCalls
    /\ c.fn = "deleteProfile"
    /\ pendingCalls' = pendingCalls \ {c}
    /\ IF ~deleted
       THEN /\ CallEnded(c.fn, c.id, TRUE)
            /\ UNCHANGED profilesData
       ELSE /\ profilesData' =
                   IF profilesData.activeConnectionId # JStr(c.id)
                   THEN profilesData
                   ELSE [profilesData EXCEPT !.activeConnectionId =
                            IF Len(profilesData.connections) > 0
                            THEN JStr(profilesData.connections[1].id)
                            ELSE Null]
            /\ lastCall' = [fn |-> c.fn, id |-> c.id, threw |-> ~saved,
                            wasActive |-> profilesData.activeConnectionId
                                              = JStr(c.id)]
    /\ UNCHANGED <<parserVars, panelVars>>

SetActiveConnection(id, saved) ==
    /\ IF findIndex(id) = 0
       THEN /\ CallEnded("setActiveConnection", id, TRUE)
            /\ UNCHANGED profilesData
       ELSE /\ profilesData' = [profilesData EXCEPT
                                    !.activeConnectionId = JStr(id)]
            /\ CallEnded("setActiveConnection", id, ~saved)
    /\ UNCHANGED <<pendingCalls, parserVars, panelVars>>

(***************************************************************************)
(* Sessions that edit the connection profiles.                             *)
(***************************************************************************)
\* the profiles the calls are made with
Profiles ==
    {[id |-> "a", name |-> "dev"], [id |-> "a", name |-> "prod"],
     [id |-> "b", name |-> "dev"]}

NextProfiles ==
    \/ \E profile \in Profiles : AddProfile(profile)
    \/ \E c \in pendingCalls : \E stored, saved, savedActive \in BOOLEAN :
           AddProfileResume(c, stored, saved, savedActive)
    \/ \E profile \in Profiles : \E withPassword, saved \in BOOLEAN :
           UpdateProfile(profile, withPassword, saved)
    \/ \E c \in pendingCalls : \E stored, saved \in BOOLEAN :
           UpdateProfileResume(c, stored, saved)
    \/ \E profile \in Profiles : DeleteProfile(profile.id)
    \/ \E c \in pendingCalls : \E deleted, saved \in BOOLEAN :
           DeleteProfileResume(c, deleted, saved)
    \/ \E profile \in Profiles : \E saved \in BOOLEAN :
           SetActiveConnection(profile.id, saved)

\* no query text is written in these sessions
SpecProfiles == InitFrom({""}) /\ [][NextProfiles]_vars

(***************************************************************************)
(* Properties of the sessions that edit the connection profiles.           *)
(***************************************************************************)
\* C30: after any sequence of addProfile, updateProfile, deleteProfile and
\* setActiveConnection calls, each ended by a return or a throw, the ids
\* of the stored profiles are pairwise distinct and activeConnectionId is
\* null or the id of a stored profile; a deleteProfile of the active
\* profile leaves the first remaining profile active, or none.
C30_ProfilesConsistent ==
    pendingCalls = {} =>
        /\ \A j, k \in 1..Len(profilesData.connections) :
               j # k => profilesData.connections[j].id
                            # profilesData.connections[k].id
        /\ \/ profilesData.activeConnectionId = Null
           \/ \E k \in 1..Len(profilesData.connections) :
                  profilesData.activeConnectionId
                      = JStr(profilesData.connections[k].id)
        /\ (lastCall.fn = "deleteProfile" /\ lastCall.wasActive) =>
               profilesData.activeConnectionId
                   = IF Len(profilesData.connections) > 0
                     THEN JStr(profilesData.connections[1].id)
                     ELSE Null

(***************************************************************************)
(* DatabaseClientPanel: the handlers of the connect, disconnect,           *)
(* executeQuery and executeNamedQuery messages.  _handleMessage starts a   *)
(* handler for every message and does not wait for it: a handler runs up   *)
(* to an await on the database, the secret storage or the user, and the    *)
(* handlers of later messages run while it waits.                          *)
(***************************************************************************)
\* the most connections ConnectionFactory.createConnection makes
MaxOpened == 2

\* one more handler may start to wait
MayWait == BagCardinality(handlers) < MaxHandlers

\* the connections the waiting connect handlers have yet to make
ConnectionsAhead ==
    BagCardinality([h \in {c \in BagToSet(handlers) :
                               c.fn = "connect" /\ c.at # "connect"}
                        |-> handlers[h]])

\* the waiting handlers other than h
Others(h) == handlers (-) SetToBag({h})

\* beside the handlers others, a handler of fn waits at the await named at
Waits(others, fn, at, conn) ==
    handlers' = others (+) SetToBag({[fn |-> fn, at |-> at, conn |-> conn]})

\* the waiting handler h has ended
Ends(h) == handlers' = Others(h)

\* this.sendMessage of a connectionResult or disconnectionResult message
Message(type, success) == [type |-> type, success |-> success]

\* this.sendMessage of a queryResult message; found, sql, connected:
\* the query it answers and what isConnected() reported for it; onArrival:
\* the handler posted it before its first await
QueryResult(success, fromCache, found, text, connected, onArrival) ==
    [type |-> "queryResult", success |-> success, fromCache |-> fromCache,
     found |-> found, sql |-> text, connected |-> connected,
     onArrival |-> onArrival]

\* new MySQLConnection(...).connect() sets this.connection when the server
\* has answered; new PostgreSQLConnection(...).connect() sets this.client
\* before it waits for the server
createConnection(type) ==
    [type |-> type,
     client |-> IF type = "postgresql" THEN "created" ELSE "null",
     connect |-> "pending"]

\* connection.isConnected() of the connection k
isConnected(k) == opened[k].client # "null"

\* !this._currentConnection || !this._currentConnection.isConnected()
NotConnected ==
    \/ currentConnection = 0
    \/ ~isConnected(currentConnection)

\* _handleConnect after the old connection is gone: getProfile, then the
\* await on getPassword, or the throw for a profile that is not there
ConnectGetProfile(others, found) ==
    IF found
    THEN /\ Waits(others, "connect", "password", 0)
         /\ UNCHANGED posted
    ELSE /\ handlers' = others
         /\ posted' = Message("connectionResult", FALSE)

\* a connect message arrives: an open connection is ended first
HandleConnect ==
    /\ MayWait
    /\ Len(opened) + ConnectionsAhead < MaxOpened
    /\ IF currentConnection # 0 /\ isConnected(currentConnection)
       THEN /\ Waits(handlers, "connect", "disconnect", currentConnection)
            /\ UNCHANGED <<currentConnection, posted>>
       ELSE /\ currentConnection' = 0
            /\ \E found \in BOOLEAN : ConnectGetProfile(handlers, found)
    /\ UNCHANGED <<opened, sent, parserVars, managerVars>>

\* end() of the old connection has answered the connect handler h
ConnectDisconnected(h, ended, found) ==
    /\ h.fn = "connect"
    /\ h.at = "disconnect"
    /\ IF ended
       THEN /\ opened' = [opened EXCEPT ![h.conn].client = "null"]
            /\ currentConnection' = 0
            /\ ConnectGetProfile(Others(h), found)
       ELSE /\ Ends(h)
            /\ posted' = Message("connectionResult", FALSE)
            /\ UNCHANGED <<currentConnection, opened>>
    /\ UNCHANGED <<sent, parserVars, managerVars>>

\* the password is there (from the secret storage or from the user): the
\* connection is made and connect() is called; or the user gave none, or
\* the storage failed
ConnectCreate(h, password, type) ==
    /\ h.fn = "connect"
    /\ h.at = "password"
    /\ IF password
       THEN /\ opened' = Append(opened, createConnection(type))
            /\ currentConnection' = Len(opened) + 1
            /\ Waits(Others(h), "connect", "connect", Len(opened) + 1)
            /\ UNCHANGED posted
       ELSE /\ Ends(h)
            /\ posted' = Message("connectionResult", FALSE)
            /\ UNCHANGED <<currentConnection, opened>>
    /\ UNCHANGED <<sent, parserVars, managerVars>>

\* connect() of the new connection has returned or thrown
ConnectDone(h, connected) ==
    /\ h.fn = "connect"
    /\ h.at = "connect"
    /\ opened' =
           [opened EXCEPT
                ![h.conn] =
                    [@ EXCEPT
                         !.client =
                             IF connected /\ (@ = "created"
                                                \/ opened[h.conn].type = "mysql")
                             THEN "open" ELSE @,
                         !.connect = IF connected THEN "ok" ELSE "failed"]]
    /\ Ends(h)
    /\ posted' = Message("connectionResult", connected)
    /\ UNCHANGED <<currentConnection, sent, parserVars, managerVars>>

\* a disconnect message arrives
HandleDisconnect ==
    /\ MayWait
    /\ IF currentConnection = 0
       THEN /\ posted' = Message("disconnectionResult", FALSE)
            /\ UNCHANGED <<currentConnection, handlers>>
       ELSE IF isConnected(currentConnection)
       THEN /\ Waits(handlers, "disconnect", "disconnect", currentConnection)
            /\ UNCHANGED <<currentConnection, posted>>
       ELSE /\ currentConnection' = 0
            /\ posted' = Message("disconnectionResult", TRUE)
            /\ UNCHANGED handlers
    /\ UNCHANGED <<opened, sent, parserVars, managerVars>>

\* end() of the connection has answered the disconnect handler h
DisconnectDone(h, ended) ==
    /\ h.fn = "disconnect"
    /\ IF ended
       THEN /\ opened' = [opened EXCEPT ![h.conn].client = "null"]
            /\ currentConnection' = 0
       ELSE UNCHANGED <<currentConnection, opened>>
    /\ Ends(h)
    /\ posted' = Message("disconnectionResult", ended)
    /\ UNCHANGED <<sent, parserVars, managerVars>>

\* a handler that runs the text without the read-only check
QueryError_unvalidated(text) ==
    IF NotConnected THEN "not connected" ELSE "none"

\* why the query text is not run: the throw the handler reaches first
QueryError(text) ==
    IF NotConnected THEN "not connected"
    ELSE IF ~validate(text).isValid THEN "invalid"
    ELSE "none"

\* the query handlers from the connection check on: the text is sent with
\* connection.executeQuery, or the catch block posts the failure
RunQuery(fn, text) ==
    IF QueryError(text) = "none"
    THEN /\ sent' = sent \cup {[sql |-> text, connected |-> ~NotConnected]}
         /\ Waits(handlers, fn, "query", 0)
         /\ UNCHANGED posted
    ELSE /\ posted' = QueryResult(FALSE, FALSE, TRUE, text, ~NotConnected,
                                  TRUE)
         /\ UNCHANGED <<sent, handlers>>

\* an executeQuery message arrives with the text of the editor
HandleExecuteQuery(text) ==
    /\ MayWait
    /\ RunQuery("executeQuery", Text(Trim(Chars(text))))
    /\ UNCHANGED <<currentConnection, opened, parserVars, managerVars>>

\* an executeNamedQuery message arrives: getQuery finds no query, or finds
\* query; a result file that can be read is shown in place of a run
HandleExecuteNamedQuery(found, query, readable) ==
    /\ MayWait
    /\ IF ~found
       THEN /\ posted' = QueryResult(FALSE, FALSE, FALSE, "", ~NotConnected,
                                     TRUE)
            /\ UNCHANGED <<sent, handlers>>
       ELSE IF query.lastResultFile /\ readable
       THEN /\ posted' = QueryResult(TRUE, TRUE, TRUE, query.sql,
                                     ~NotConnected, TRUE)
            /\ UNCHANGED <<sent, handlers>>
       ELSE RunQuery("executeNamedQuery", query.sql)
    /\ UNCHANGED <<currentConnection, opened, parserVars, managerVars>>

\* connection.executeQuery has returned a result or thrown
QueryDone(h, success) ==
    /\ h.fn \in {"executeQuery", "executeNamedQuery"}
    /\ Ends(h)
    /\ posted' = QueryResult(success, FALSE, TRUE, "", TRUE, FALSE)
    /\ UNCHANGED <<currentConnection, opened, sent, parserVars, managerVars>>

(***************************************************************************)
(* Sessions of the panel.                                                  *)
(***************************************************************************)
\* the texts sent from the editor
QueryTexts == {" SELECT 1 ", "DELETE FROM t", "  "}

\* the saved queries, with and without the file of a last result
SavedQueries ==
    [sql : {"SELECT 1", "DROP TABLE t"}, lastResultFile : BOOLEAN]

ConnectionTypes == {"mysql", "postgresql"}

NextPanel ==
    \/ HandleConnect
    \/ \E h \in BagToSet(handlers) : \E ended, found \in BOOLEAN :
           ConnectDisconnected(h, ended, found)
    \/ \E h \in BagToSet(handlers) : \E password \in BOOLEAN :
           \E type \in ConnectionTypes : ConnectCreate(h, password, type)
    \/ \E h \in BagToSet(handlers) : \E connected \in BOOLEAN :
           ConnectDone(h, connected)
    \/ HandleDisconnect
    \/ \E h \in BagToSet(handlers) : \E ended \in BOOLEAN :
           DisconnectDone(h, ended)
    \/ \E text \in QueryTexts : HandleExecuteQuery(text)
    \/ \E found, readable \in BOOLEAN : \E query \in SavedQueries :
           HandleExecuteNamedQuery(found, query, readable)
    \/ \E h \in BagToSet(handlers) : \E success \in BOOLEAN :
           QueryDone(h, success)

\* no query text is written in the editor model and no profile is edited
SpecPanel == InitFrom({""}) /\ [][NextPanel]_vars

(***************************************************************************)
(* Properties of the sessions of the panel.                                *)
(***************************************************************************)
\* every text handed to connection.executeQuery passed SqlValidator.validate
\* and went to a connection that reported isConnected
SentWereChecked ==
    \A q \in sent : q.connected /\ validate(q.sql).isValid

\* the last message is the answer a query handler gave on arrival to a
\* query that does not pass validation or that found no connection
AnsweredUnrunnable ==
    /\ posted.type = "queryResult"
    /\ posted.onArrival
    /\ posted.found
    /\ (~posted.connected \/ ~validate(posted.sql).isValid)

\* C26: the panel calls connection.executeQuery only with a text that
\* passed SqlValidator.validate, on a connection that reported isConnected;
\* when validation fails or there is no connection, nothing is sent and a
\* queryResult message with success=false is posted, for executeQuery and
\* executeNamedQuery messages in any order of arrival.
C26_UnrunnableQueryFails ==
    /\ SentWereChecked
    /\ AnsweredUnrunnable => ~posted.success

\* C26, amended: as above, but an executeNamedQuery message whose saved
\* query has a readable result file is answered with the rows of that file
\* (success=true, fromCache=true) before the connection and the text are
\* looked at; nothing is sent to the database in that case either.
C26_UnrunnableQueryFailsOrIsCached ==
    /\ SentWereChecked
    /\ AnsweredUnrunnable => (~posted.success \/ posted.fromCache)

\* a text was run, and a later forbidden text was refused on the open
\* connection
C26_Witness ==
    /\ sent # {}
    /\ AnsweredUnrunnable
    /\ posted.connected
    /\ ~posted.success
    /\ posted.sql \in {"DELETE FROM t", "DROP TABLE t"}

\* C28: under any interleaving of connect and disconnect messages, once
\* the handlers have ended every connection the panel opened is the one
\* held in _currentConnection or has been disconnected, and
\* _currentConnection does not point at a connection whose connect()
\* failed.
C28_NoConnectionLeaked ==
    handlers = EmptyBag =>
        /\ \A k \in DOMAIN opened :
               opened[k].client = "open" => currentConnection = k
        /\ currentConnection # 0 =>
               opened[currentConnection].connect # "failed"

(***************************************************************************)
(* Sessions that write an @chart directive.                                *)
(***************************************************************************)
ChartHeads ==
    {"/** @chart ",
     "/* @chart ",
     "/**\n * @column p bold=true\n * @row q>1:bg=#eee\n * @chart "}

\* the clauses typed on the @chart line: key says which option the clause
\* is meant to set, x its column, y its series, ok whether the value is
\* one of the allowed ones; the clause of key chart ends the line and
\* starts another @chart line
ChartClauses ==
    {[text |-> "x=d ", key |-> "x", x |-> "d", y |-> <<>>, ok |-> TRUE],
     [text |-> "xAxis='e' ", key |-> "x", x |-> "e", y |-> <<>>, ok |-> TRUE],
     [text |-> "x=\"\" ", key |-> "x", x |-> "", y |-> <<>>, ok |-> TRUE],
     [text |-> "y=a,b ", key |-> "y", x |-> "", y |-> <<"a", "b">>,
      ok |-> TRUE],
     [text |-> "yAxis=\"b , ,a\" ", key |-> "y", x |-> "",
      y |-> <<"b", "a">>, ok |-> TRUE],
     [text |-> "y=, ", key |-> "y", x |-> "", y |-> <<>>, ok |-> TRUE],
     [text |-> "y=\"\" ", key |-> "y", x |-> "", y |-> <<>>, ok |-> TRUE],
     [text |-> "type=donut ", key |-> "type", x |-> "", y |-> <<>>,
      ok |-> FALSE],
     [text |-> "type=pie ", key |-> "type", x |-> "", y |-> <<>>,
      ok |-> TRUE],
     [text |-> "curve=zig ", key |-> "curve", x |-> "", y |-> <<>>,
      ok |-> FALSE],
     [text |-> "legend=false ", key |-> "legend", x |-> "", y |-> <<>>,
      ok |-> TRUE],
     [text |-> "\n * @chart ", key |-> "chart", x |-> "", y |-> <<>>,
      ok |-> TRUE]}

NextChart ==
    \/ \E c \in ChartClauses : Type(c)
    \/ CloseComment
    \/ ParseOptions

SpecChart == InitFrom(ChartHeads) /\ [][NextChart]_vars

(***************************************************************************)
(* Properties of the sessions that write an @chart directive.              *)
(***************************************************************************)
\* whether the text holds a block comment that starts with slash, star,
\* star and ends with star, slash
HasBlockComment(cs) ==
    \E i \in 1..Len(cs) :
        /\ StartsAt(cs, i, <<"/", "*", "*">>)
        /\ \E j \in (i + 3)..Len(cs) : StartsAt(cs, j, <<"*", "/">>)

\* whether the session wrote its directives inside such a comment
InDocComment == phase = "closed" /\ StartsAt(Chars(head), 1, Chars("/**"))

\* the clauses typed that are meant to set option key
Keyed(key) == {k \in 1..Len(typed) : typed[k].key = key}

\* C1: parseOptions returns an option set and never raises, whatever the
\* first block comment holds (unknown keys, empty quoted values, malformed
\* operators, incomplete @chart lines).
C1_ParseNeverRaises == ~IsThrow(options)

\* C3: for a text without a block comment, parseOptions returns an option
\* set with an empty column map, an empty row-rule list and no chart.
C3_NoCommentEmptyOptions ==
    (options # NotParsed /\ ~HasBlockComment(Chars(sql)))
        => options = NewOptions

\* a text without block comment, but with a complete @chart line, was parsed
C3_Witness ==
    /\ options = NewOptions
    /\ ~HasBlockComment(Chars(sql))
    /\ \E k \in Keyed("x") : typed[k].x # ""
    /\ \E k \in Keyed("y") : typed[k].y # <<>>

\* C8: a returned chart is either absent or has a non-empty xAxis and at
\* least one non-empty yAxis entry; an @chart line without x or without a
\* non-empty y entry yields no chart, and the columns and row rules of the
\* comment are still returned.
C8_ChartCompleteOrAbsent ==
    (options # NotParsed /\ InDocComment) =>
        /\ Parsed
        /\ options.chart # Undefined =>
               /\ Truthy(options.chart.xAxis)
               /\ Len(options.chart.yAxis) >= 1
               /\ \A k \in 1..Len(options.chart.yAxis) :
                      options.chart.yAxis[k] # ""
        /\ (\/ \A k \in Keyed("x") : typed[k].x = ""
            \/ \A k \in Keyed("y") : typed[k].y = <<>>)
               => options.chart = Undefined
        /\ head # "/** @chart " =>
               /\ DOMAIN options.columns = {"p"}
               /\ Len(options.rowStyles) = 1

\* the line gives one x, one y with a series, and otherwise only type or
\* curve clauses whose value is not an allowed one
OnlyXY ==
    /\ Cardinality(Keyed("x")) = 1
    /\ Cardinality(Keyed("y")) = 1
    /\ \A k \in Keyed("x") : typed[k].x # ""
    /\ \A k \in Keyed("y") : typed[k].y # <<>>
    /\ \A k \in 1..Len(typed) :
           \/ typed[k].key \in {"x", "y"}
           \/ typed[k].key \in {"type", "curve"} /\ ~typed[k].ok

\* C9: an @chart line giving only x and y yields a chart of type line with
\* legend, grid, no stacking, a smooth curve and the y entries in source
\* order, trimmed, without the empty ones; a type or curve outside the
\* allowed values leaves the default.
C9_ChartDefaults ==
    (options # NotParsed /\ InDocComment /\ OnlyXY) =>
        /\ Parsed
        /\ options.chart =
               [type |-> "line",
                xAxis |-> JStr(typed[CHOOSE k \in Keyed("x") : TRUE].x),
                yAxis |-> typed[CHOOSE k \in Keyed("y") : TRUE].y,
                title |-> Undefined, showLegend |-> TRUE, showGrid |-> TRUE,
                stacked |-> FALSE, curve |-> "smooth"]

\* a chart came from a quoted y list with blanks and an empty entry, on a
\* line that also names a type that does not exist
C9_Witness ==
    /\ Parsed
    /\ InDocComment
    /\ OnlyXY
    /\ options.chart # Undefined
    /\ options.chart.yAxis = <<"b", "a">>
    /\ Keyed("type") # {}

\* the texts of the clauses cs, one after the other
RECURSIVE Texts(_)
Texts(cs) == IF cs = <<>> THEN "" ELSE cs[1].text \o Texts(Tail(cs))

\* the clauses cs without those that a later clause for the same key
\* follows
RECURSIVE LastPerKey(_)
LastPerKey(cs) ==
    IF cs = <<>> THEN <<>>
    ELSE (IF \E k \in 2..Len(cs) : cs[k].key = cs[1].key THEN <<>>
          ELSE <<cs[1]>>) \o LastPerKey(Tail(cs))

\* what parseOptions gives for the comment that holds the clauses cs after
\* the head
ParsedFrom(cs) == parseOptions(head \o Texts(cs) \o "\n */\nSELECT 1")

\* C17: within one @column or @chart directive, when the same key (or the
\* two spellings of it) occurs more than once, the later occurrence
\* overwrites the earlier: the resulting record equals the record parsed
\* from the directive with the earlier occurrences removed, for every
\* recognized key and every pair of values.
C17_LaterKeyOverwrites ==
    (options # NotParsed /\ InDocComment /\ Keyed("chart") = {})
        => options = ParsedFrom(LastPerKey(typed))

\* the clauses typed on the first @chart line
FirstLine ==
    IF Keyed("chart") = {} THEN typed
    ELSE SubSeq(typed, 1, Min(Keyed("chart")) - 1)

\* C20: only the first @chart line of the comment block is considered: the
\* chart of the returned option set is determined by that line alone, and
\* later @chart lines never change it, also when the first line is
\* incomplete and is therefore discarded.
C20_FirstChartLineOnly ==
    (Parsed /\ InDocComment) =>
        /\ ~IsThrow(ParsedFrom(FirstLine))
        /\ options.chart = ParsedFrom(FirstLine).chart

(***************************************************************************)
(* Sessions that write conditional clauses on an @column line and render   *)
(* cells of that column.                                                   *)
(***************************************************************************)
CondHeads ==
    {"/** @column p ", "/** @column p align=right bg=#ff0 bold=true "}

\* the clauses typed on the @column line: the operator and the threshold
\* (in tenths) the clause is written with, and the declarations its styles
\* stand for
CondClauses ==
    {[text |-> "if<0:color=red ", operator |-> "<", tenths |-> 0,
      decls |-> <<"color: red">>],
     [text |-> "if>0:color=blue ", operator |-> ">", tenths |-> 0,
      decls |-> <<"color: blue">>],
     [text |-> "if>0:color=green ", operator |-> ">", tenths |-> 0,
      decls |-> <<"color: green">>],
     [text |-> "if<=5:bg=#eee ", operator |-> "<=", tenths |-> 50,
      decls |-> <<"background-color: #eee">>],
     [text |-> "if>=1.5:bold=true ", operator |-> ">=", tenths |-> 15,
      decls |-> <<"font-weight: bold">>],
     [text |-> "if==5:color=red,fontWeight=600 ", operator |-> "==",
      tenths |-> 50, decls |-> <<"color: red", "font-weight: 600">>],
     [text |-> "if!=-1.5:bg=#fee ", operator |-> "!=", tenths |-> 0 - 15,
      decls |-> <<"background-color: #fee">>],
     [text |-> "if<>3:color=pink ", operator |-> "<>", tenths |-> 30,
      decls |-> <<"color: pink">>]}

\* the cell values rendered: whether the value parses as a number, and
\* that number in tenths
Cells ==
    {[js |-> JNum(0 - 5, 0), numeric |-> TRUE, tenths |-> 0 - 50],
     [js |-> JNum(5, 0), numeric |-> TRUE, tenths |-> 50],
     [js |-> JStr("0"), numeric |-> TRUE, tenths |-> 0],
     [js |-> JStr("1.5"), numeric |-> TRUE, tenths |-> 15],
     [js |-> JStr("abc"), numeric |-> FALSE, tenths |-> 0]}

NextCond ==
    \/ \E c \in CondClauses : Type(c)
    \/ CloseComment
    \/ ParseOptions
    \/ \E v \in Cells : GenerateConditionalStyle("p", v.js)

SpecCond == InitFrom(CondHeads) /\ [][NextCond]_vars

(***************************************************************************)
(* Sessions that write number options on an @column line and format cells  *)
(* of that column.                                                         *)
(***************************************************************************)
FormatHeads == {"/** @column p format=number ", "/** @column p format=text "}

\* the clauses typed on the @column line
FormatClauses ==
    {[text |-> "decimal=2 ", key |-> "decimal"],
     [text |-> "decimal=-1 ", key |-> "decimal"],
     [text |-> "decimal=abc ", key |-> "decimal"],
     [text |-> "decimal=101 ", key |-> "decimal"],
     [text |-> "comma=true ", key |-> "comma"]}

\* the cell values formatted
FormatCells ==
    {Null, Undefined, JNum(12345, 1), JNum(0 - 5, 0), JStr("1234567"),
     JStr("abc"), JStr("1234567.891"), JNum(0 - 123456, 0),
     JStr("1234.56789"), JNum(125, 3)}

\* no date is read for these columns
NextFormat ==
    \/ \E c \in FormatClauses : Type(c)
    \/ CloseComment
    \/ ParseOptions
    \/ \E v \in FormatCells : FormatValue("p", v, InvalidDate)

SpecFormat == InitFrom(FormatHeads) /\ [][NextFormat]_vars

(***************************************************************************)
(* Sessions that write date patterns on an @column line and format cells   *)
(* of that column.                                                         *)
(***************************************************************************)
DateHeads == {"/** @column p format=datetime ", "/** @column p "}

\* the clauses typed on the @column line
DateClauses ==
    {[text |-> "pattern=\"yyyy/MM/dd HH:mm\" ", key |-> "pattern"],
     [text |-> "pattern=\"MMM dd yyyy, HH:mm:ss (yyyy mm)\" ",
      key |-> "pattern"],
     [text |-> "pattern='' ", key |-> "pattern"],
     [text |-> "format=datetime ", key |-> "format"],
     [text |-> "format=number ", key |-> "format"],
     [text |-> "format=text ", key |-> "format"]}

\* the cell values formatted
DateCells == {Null, JStr("2024-01-05T10:20:30"), JStr("abc"), JNum(12345, 1)}

\* what new Date gives for a text outside the date-time form: the result
\* depends on the host
HostDates ==
    {InvalidDate,
     [valid |-> TRUE, year |-> 2001, month |-> 2, day |-> 3, hours |-> 4,
      minutes |-> 5, seconds |-> 6]}

NextDate ==
    \/ \E c \in DateClauses : Type(c)
    \/ CloseComment
    \/ ParseOptions
    \/ \E v \in DateCells : \E hostDate \in HostDates :
           FormatValue("p", v, hostDate)

SpecDate == InitFrom(DateHeads) /\ [][NextDate]_vars

(***************************************************************************)
(* Sessions that write @row directives and style rows.                     *)
(***************************************************************************)
RowHeads == {"/**", "/** weekdays"}

\* the directives typed, one per line: the column, the operator, whether
\* the literal is quoted, the text of the literal, the declarations of the
\* styles, and whether the parser accepts the line as a directive
RowDirectives ==
    {[text |-> "\n * @row d==\"S\":bg=#eef", column |-> "d",
      operator |-> "==", quoted |-> TRUE, literal |-> "S",
      decls |-> <<"background-color: #eef">>, ok |-> TRUE],
     [text |-> "\n * @row d=='5':color=red", column |-> "d",
      operator |-> "==", quoted |-> TRUE, literal |-> "5",
      decls |-> <<"color: red">>, ok |-> TRUE],
     [text |-> "\n * @row d==\"\":bold=true", column |-> "d",
      operator |-> "==", quoted |-> TRUE, literal |-> "",
      decls |-> <<"font-weight: bold">>, ok |-> TRUE],
     [text |-> "\n * @row d<\"T\":color=gray", column |-> "d",
      operator |-> "<", quoted |-> TRUE, literal |-> "T",
      decls |-> <<"color: gray">>, ok |-> TRUE],
     [text |-> "\n * @row n>1.5:bg=#cfc", column |-> "n",
      operator |-> ">", quoted |-> FALSE, literal |-> "1.5",
      decls |-> <<"background-color: #cfc">>, ok |-> TRUE],
     [text |-> "\n * @row n<=5:color=blue, bold=true", column |-> "n",
      operator |-> "<=", quoted |-> FALSE, literal |-> "5",
      decls |-> <<"color: blue", "font-weight: bold">>, ok |-> TRUE],
     [text |-> "\n * @row m!=0:fontWeight=600", column |-> "m",
      operator |-> "!=", quoted |-> FALSE, literal |-> "0",
      decls |-> <<"font-weight: 600">>, ok |-> TRUE],
     [text |-> "\n * @row d=S:bg=red", column |-> "d",
      operator |-> "=", quoted |-> FALSE, literal |-> "S",
      decls |-> <<"background-color: red">>, ok |-> FALSE],
     [text |-> "\n * @row d==done:bg=#eee", column |-> "d",
      operator |-> "==", quoted |-> FALSE, literal |-> "done",
      decls |-> <<"background-color: #eee">>, ok |-> FALSE]}

\* the rows styled: the cells, the string form of cell d, and the columns
\* whose cell parses as a number
Rows ==
    {[data |-> [d |-> JStr("U"), n |-> JNum(5, 0)], dStr |-> "U",
      numeric |-> {"n"}],
     [data |-> [d |-> JStr("S"), n |-> JStr("abc"), m |-> Null],
      dStr |-> "S", numeric |-> {}],
     [data |-> [d |-> JNum(5, 0), n |-> Null], dStr |-> "5",
      numeric |-> {"d"}],
     [data |-> [d |-> JStr(""), n |-> JStr("2")], dStr |-> "",
      numeric |-> {"n"}],
     [data |-> [d |-> JStr("undefined"), n |-> JNum(15, 1)],
      dStr |-> "undefined", numeric |-> {"n"}]}

NextRow ==
    \/ \E c \in RowDirectives : Type(c)
    \/ CloseComment
    \/ ParseOptions
    \/ \E r \in Rows : GenerateRowStyle(r.data)

SpecRow == InitFrom(RowHeads) /\ [][NextRow]_vars

(***************************************************************************)
(* Sessions that write @column directives.                                 *)
(***************************************************************************)
ColumnHeads == {"/**", "/** sales by region"}

\* the directives typed, one per line: the column named, the fields of the
\* record the line sets, and whether the parser accepts the line as a
\* directive (a line that ends with the column name is not one)
ColumnDirectives ==
    {[text |-> "\n * @column p bold=true width=80px", column |-> "p",
      sets |-> {"fontWeight", "width"}, ok |-> TRUE],
     [text |-> "\n * @column p color=red", column |-> "p",
      sets |-> {"color"}, ok |-> TRUE],
     [text |-> "\n * @column p align=right if<0:fontWeight=600",
      column |-> "p",
      sets |-> {"align", "conditionalStyles"}, ok |-> TRUE],
     [text |-> "\n * @column p ", column |-> "p", sets |-> {}, ok |-> TRUE],
     [text |-> "\n * @column P bg=#eee", column |-> "P",
      sets |-> {"backgroundColor"}, ok |-> TRUE],
     [text |-> "\n * @column q decimal=2 comma=true", column |-> "q",
      sets |-> {"decimal", "comma"}, ok |-> TRUE],
     [text |-> "\n * @column p", column |-> "p", sets |-> {}, ok |-> FALSE]}

NextColumns ==
    \/ \E c \in ColumnDirectives : Type(c)
    \/ CloseComment
    \/ ParseOptions

SpecColumns == InitFrom(ColumnHeads) /\ [][NextColumns]_vars

(***************************************************************************)
(* Properties of the sessions that write @column directives.               *)
(***************************************************************************)
\* the index of the last accepted directive typed for column name
LastFor(name) ==
    Max({k \in 1..Len(typed) : typed[k].ok /\ typed[k].column = name})

\* the fields of a column record that are set
FieldsSet(columnOption) ==
    {f \in DOMAIN columnOption \ {"columnName"} :
         columnOption[f] # (IF f = "conditionalStyles" THEN <<>>
                            ELSE Undefined)}

WidthHeads == {"/** @column p ", "/** @column p width=80px "}

\* the clauses typed on the @column line
WidthClauses ==
    {[text |-> "width=120px "],
     [text |-> "align=right "],
     [text |-> "bg=#ff0 "],
     [text |-> "if<0:color=red "],
     [text |-> "if>=1.5:bold=true "],
     [text |-> "if<>3:color=pink "]}

\* the cell values styled
WidthCells == {JNum(0 - 5, 0), JStr("1.5"), JStr("abc"), Null}

NextWidth ==
    \/ \E c \in WidthClauses : Type(c)
    \/ CloseComment
    \/ ParseOptions
    \/ GenerateColumnStyle("p")
    \/ \E v \in WidthCells : GenerateConditionalStyle("p", v)

SpecWidth == InitFrom(WidthHeads) /\ [][NextWidth]_vars

(***************************************************************************)
(* Sessions that write directives after the end of the first comment.      *)
(***************************************************************************)
TrailingHeads ==
    {"/**",
     "/** @column p bold=true",
     "-- top\n/* plain */ /**\n * @row n<=5:color=blue"}

\* the texts written after the comment: a later comment of the same form,
\* a line comment, a plain block comment, a comment of several lines and a
\* string of the query
TrailingPieces ==
    {[text |-> "\n/** @column q color=red */"],
     [text |-> "\n-- @row r>1:bg=#eee"],
     [text |-> "\n/* @chart x=z y=a */"],
     [text |-> "\n/**\n * @column p width=80px\n * @row r==\"x\":bold=true\n */"],
     [text |-> "\nWHERE c = '@column q bold=true @chart x=z y=a'"]}

NextTrailing ==
    \/ CloseComment
    \/ \E c \in TrailingPieces : TypeAfter(c)
    \/ ParseOptions

SpecTrailing == InitFrom(TrailingHeads) /\ [][NextTrailing]_vars

(***************************************************************************)
(* Properties of the sessions that write directives after the comment.     *)
(***************************************************************************)
\* C24: parseOptions reads directives from the first comment alone, which
\* ends at the first end mark after its opening: the option set is that
\* of the text cut after that comment, and no @column, @row or @chart
\* written after it (for q, for r, with x=z) is in it.
C24_OnlyFirstCommentRead ==
    (Parsed /\ phase = "closed") =>
        /\ options = parseOptions(head \o "\n */\nSELECT 1")
        /\ "q" \notin DOMAIN options.columns
        /\ \A k \in 1..Len(options.rowStyles) :
               options.rowStyles[k].columnName # "r"
        /\ options.chart = Undefined

\* a later comment sets a width for p and a rule for r, and another one a
\* colour for q: p has its bold alone and there is no q and no rule
C24_Witness ==
    /\ Parsed
    /\ phase = "closed"
    /\ head = "/** @column p bold=true"
    /\ Len(typed) = 2
    /\ typed[1].text = "\n/** @column q color=red */"
    /\ typed[2].text
           = "\n/**\n * @column p width=80px\n * @row r==\"x\":bold=true\n */"
    /\ DOMAIN options.columns = {"p"}
    /\ options.columns["p"].width = Undefined
    /\ options.columns["p"].fontWeight = JStr("bold")
    /\ options.rowStyles = <<>>

(***************************************************************************)
(* Sessions that write a query and have it checked.                        *)
(***************************************************************************)
QueryHeads == {"", "-- report\n"}

\* the pieces of SQL typed one after the other
QueryPieces ==
    {[text |-> "SELECT 1"],
     [text |-> "select * from t"],
     [text |-> "SHOW TABLES"],
     [text |-> ";"],
     [text |-> " \n"],
     [text |-> "DELETE FROM t"],
     [text |-> "Insert into t values (1)"],
     [text |-> "use db"],
     [text |-> "-- note\n"],
     [text |-> "# x\n"],
     [text |-> "/* ; */ "],
     [text |-> "/* -- */ "]}

NextValidate ==
    \/ \E c \in QueryPieces : Type(c)
    \/ Validate

SpecValidate == InitFrom(QueryHeads) /\ [][NextValidate]_vars

(***************************************************************************)
(* Properties of the sessions that have a query checked.                   *)
(***************************************************************************)
\* the text from index i on as the database reads it: a line comment ends
\* with its line, a block comment counts as a blank, and nothing follows a
\* block comment that is not closed
RECURSIVE Uncommented(_, _)
Uncommented(cs, i) ==
    IF i > Len(cs) THEN <<>>
    ELSE IF StartsAt(cs, i, <<"-", "-">>) \/ cs[i] = "#"
    THEN Uncommented(cs, SkipNotIn(cs, i, {"\n"}))
    ELSE IF StartsAt(cs, i, <<"/", "*">>)
    THEN IF IndexOf(cs, <<"*", "/">>, i + 2) = 0 THEN <<>>
         ELSE <<" ">> \o Uncommented(cs, IndexOf(cs, <<"*", "/">>, i + 2) + 2)
    ELSE <<cs[i]>> \o Uncommented(cs, i + 1)

\* the word a statement starts with, in upper case ("" when it starts with
\* no word)
LeadingWord(statement) ==
    Text(ToUpperCase(SubSeq(Trim(statement), 1,
                            SkipIn(Trim(statement), 1, Word) - 1)))

\* the leading words of the non-empty statements of the checked text, which
\* semicolons outside comments separate
StatementKinds ==
    {LeadingWord(Split(Uncommented(Chars(call.value), 1), ";")[k]) :
         k \in {j \in 1..Len(Split(Uncommented(Chars(call.value), 1), ";")) :
                    Trim(Split(Uncommented(Chars(call.value), 1), ";")[j])
                        # <<>>}}

\* C13: validate accepts a SQL text only if every non-empty statement of
\* it is a SELECT, SHOW, DESC/DESCRIBE or EXPLAIN statement; any other
\* statement kind makes it return isValid=false with an error message.
C13_OnlyReadStatementsAccepted ==
    call.fn = "validate" =>
        /\ call.result.isValid =>
               StatementKinds
                   \subseteq {"SELECT", "SHOW", "DESC", "DESCRIBE", "EXPLAIN"}
        /\ ~call.result.isValid => call.result.error.t = "string"

\* C14: validate returns isValid=false for every SQL text in which some
\* statement, once its comments (-- , # and block comments) are ignored as
\* the database ignores them, begins with INSERT, UPDATE, DELETE, ALTER,
\* TRUNCATE or another forbidden keyword, in any letter case and wherever
\* comments or semicolons are placed around it.
C14_ForbiddenStatementRejected ==
    (call.fn = "validate" /\ StatementKinds \cap FORBIDDEN_KEYWORDS # {})
        => ~call.result.isValid

(***************************************************************************)
(* Properties of the sessions that render cells.                           *)
(***************************************************************************)
\* the declarations of a style string, which joins them with "; "
RECURSIVE SplitDecls(_)
SplitDecls(cs) ==
    IF cs = <<>> THEN <<>>
    ELSE IF IndexOf(cs, Chars("; "), 1) = 0 THEN <<Text(cs)>>
    ELSE <<Text(SubSeq(cs, 1, IndexOf(cs, Chars("; "), 1) - 1))>>
             \o SplitDecls(SubSeq(cs, IndexOf(cs, Chars("; "), 1) + 2,
                                  Len(cs)))

\* the declarations of the style string the last call returned
ResultDecls == SplitDecls(Chars(call.result.v))

Range(xs) == {xs[k] : k \in 1..Len(xs)}

SixOperators == {"<", ">", "<=", ">=", "==", "!="}

\* a <op> b on integers
Compares(a, operator, b) ==
    CASE operator = "<" -> a < b
      [] operator = ">" -> a > b
      [] operator = "<=" -> a <= b
      [] operator = ">=" -> a >= b
      [] operator = "==" -> a = b
      [] operator = "!=" -> a # b

\* the typed clauses written with one of the six operators, in source order
RECURSIVE ValidClauses(_)
ValidClauses(cs) ==
    IF cs = <<>> THEN <<>>
    ELSE (IF cs[1].operator \in SixOperators THEN <<cs[1]>> ELSE <<>>)
             \o ValidClauses(Tail(cs))

\* the declarations of the clauses of cs that hold for the number
\* tenths / 10, in source order
RECURSIVE MatchingDecls(_, _)
MatchingDecls(cs, tenths) ==
    IF cs = <<>> THEN <<>>
    ELSE (IF Compares(tenths, cs[1].operator, cs[1].tenths)
          THEN cs[1].decls ELSE <<>>)
             \o MatchingDecls(Tail(cs), tenths)

\* the cell of the last generateConditionalStyle call
RenderedCell == CHOOSE v \in Cells : v.js = call.value

\* the last call styled a cell that parses as a number
NumericCellStyled ==
    /\ call.fn = "generateConditionalStyle"
    /\ RenderedCell.numeric

\* the declarations the static options of the head put first
HeadDecls ==
    IF head = "/** @column p " THEN <<>> ELSE <<"text-align: right">>

\* C4: for a column parsed from a line with a clause if<op><t>:<styles> and
\* a cell that parses as the number v, generateConditionalStyle includes the
\* declarations of that clause when v <op> t holds, and does not include
\* them when it does not hold (unless another clause of the line gives one
\* of the same declarations), for each of the six operators.
C4_RuleAppliedIffHolds ==
    NumericCellStyled =>
        \A k \in 1..Len(typed) :
            typed[k].operator \in SixOperators =>
                IF Compares(RenderedCell.tenths, typed[k].operator,
                            typed[k].tenths)
                THEN Range(typed[k].decls) \subseteq Range(ResultDecls)
                ELSE (\A j \in 1..Len(typed) :
                          j # k => Range(typed[j].decls)
                                       \cap Range(typed[k].decls) = {})
                     => Range(typed[k].decls) \cap Range(ResultDecls) = {}

\* the line has if<0:color=red and if<=5:bg=#eee: -5 was styled red, and 5
\* was styled without red
C4_Witness ==
    /\ NumericCellStyled
    /\ \E k \in 1..Len(typed) : typed[k].text = "if<0:color=red "
    /\ \E k \in 1..Len(typed) : typed[k].text = "if<=5:bg=#eee "
    /\ \/ /\ RenderedCell.tenths = 0 - 50
          /\ "color: red" \in Range(ResultDecls)
       \/ /\ RenderedCell.tenths = 50
          /\ "color: red" \notin Range(ResultDecls)
          /\ "background-color: #eee" \in Range(ResultDecls)

\* C5: the conditional clauses of one @column line are stored in
\* conditionalStyles in source order, and the declarations of the rules
\* that match a value come out in that order, so that a later rule's
\* declaration for a property comes after an earlier rule's.
C5_RulesInSourceOrder ==
    (Parsed /\ InDocComment) =>
        /\ Len(options.columns["p"].conditionalStyles)
               = Len(ValidClauses(typed))
        /\ \A k \in 1..Len(ValidClauses(typed)) :
               /\ options.columns["p"].conditionalStyles[k].operator
                      = ValidClauses(typed)[k].operator
               /\ options.columns["p"].conditionalStyles[k].value
                      = JNum(ValidClauses(typed)[k].tenths, 1)
        /\ (NumericCellStyled /\ ValidClauses(typed) # <<>>) =>
               ResultDecls = HeadDecls \o MatchingDecls(ValidClauses(typed),
                                                        RenderedCell.tenths)

\* if>0:color=blue if>0:color=green on 5 ends with color green
C5_Witness ==
    /\ NumericCellStyled
    /\ Len(typed) = 2
    /\ typed[1].text = "if>0:color=blue "
    /\ typed[2].text = "if>0:color=green "
    /\ call.value = JNum(5, 0)
    /\ call.result = JStr("color: blue; color: green")

\* the declaration of property name for the static value v, if it is set
StaticDecl(name, v) ==
    IF v = Undefined THEN <<>> ELSE <<name \o ": " \o v.v>>

\* the static background, colour and weight of the column, as declarations
StaticDecls ==
    StaticDecl("background-color", options.columns["p"].backgroundColor)
        \o StaticDecl("color", options.columns["p"].color)
        \o StaticDecl("font-weight", options.columns["p"].fontWeight)

\* C18: generateConditionalStyle emits the column's static backgroundColor,
\* color and fontWeight exactly when conditionalStyles is absent or empty;
\* when conditionalStyles is non-empty the output is text-align (if align
\* is set) followed only by declarations of matching rules, so a cell
\* value that does not parse as a number yields at most the text-align
\* declaration and a numeric value matching no rule yields no colour or
\* weight at all.
C18_StaticOnlyWithoutRules ==
    call.fn = "generateConditionalStyle" =>
        IF options.columns["p"].conditionalStyles = <<>>
        THEN ResultDecls = HeadDecls \o StaticDecls
        ELSE ResultDecls
                 = HeadDecls
                       \o (IF RenderedCell.numeric
                           THEN MatchingDecls(ValidClauses(typed),
                                              RenderedCell.tenths)
                           ELSE <<>>)

\* the column has a static background and weight and the rule if<0; the
\* cell 5 matches no rule and got the alignment alone
C18_Witness ==
    /\ call.fn = "generateConditionalStyle"
    /\ head # "/** @column p "
    /\ Len(typed) = 1
    /\ typed[1].text = "if<0:color=red "
    /\ options.columns["p"].backgroundColor = JStr("#ff0")
    /\ options.columns["p"].fontWeight = JStr("bold")
    /\ call.value = JNum(5, 0)
    /\ call.result = JStr("text-align: right")

\* C21: a conditional clause whose operator run is not one of the six
\* operators is dropped on its own: the column is parsed as it is from the
\* same line without that clause, so that the other conditional clauses
\* are stored in their order and the key=value options are those of the
\* line without the bad clause.
C21_BadClauseDroppedAlone ==
    (Parsed /\ InDocComment) => options = ParsedFrom(ValidClauses(typed))

\* the static colour, background and weight the key=value clauses of the
\* head set; the clauses typed after it are all conditional
HeadStatic ==
    IF head = "/** @column p "
    THEN [color |-> Undefined, backgroundColor |-> Undefined,
          fontWeight |-> Undefined]
    ELSE [color |-> Undefined, backgroundColor |-> JStr("#ff0"),
          fontWeight |-> JStr("bold")]

\* C27: the style assignments written inside a conditional clause affect
\* only that rule: the column's static color, backgroundColor and
\* fontWeight are what the top-level key=value clauses of the line set,
\* and unset when there are none.
C27_ClauseStylesStayConditional ==
    (Parsed /\ InDocComment) =>
        \A f \in DOMAIN HeadStatic : options.columns["p"][f] = HeadStatic[f]

(***************************************************************************)
(* Properties of the sessions that format cells.                           *)
(***************************************************************************)
\* C2: with the options and row rules parseOptions produced from any
\* directive text, formatValue, generateConditionalStyle and
\* generateRowStyle return a string and never raise.
C2_RenderNeverRaises == ~IsThrow(call.result)

\* C10: formatValue returns the empty string for a null or undefined
\* value, whatever the options are.
C10_MissingValueEmpty ==
    (call.fn = "formatValue" /\ call.value \in {Null, Undefined})
        => call.result = JStr("")

\* undefined was formatted for a number column with comma and a decimal
\* count that toFixed rejects
C10_Witness ==
    /\ call.fn = "formatValue"
    /\ call.value = Undefined
    /\ call.result = JStr("")
    /\ options.columns["p"].format = JStr("number")
    /\ options.columns["p"].decimal = JNum(0 - 1, 0)
    /\ options.columns["p"].comma = JBool(TRUE)

\* the cells that parse as a number, with that number as m / 10^e
NumberCells ==
    {[js |-> JNum(12345, 1), m |-> 12345, e |-> 1],
     [js |-> JNum(0 - 5, 0), m |-> 0 - 5, e |-> 0],
     [js |-> JStr("1234567"), m |-> 1234567, e |-> 0],
     [js |-> JStr("1234567.891"), m |-> 1234567891, e |-> 3],
     [js |-> JNum(0 - 123456, 0), m |-> 0 - 123456, e |-> 0],
     [js |-> JStr("1234.56789"), m |-> 123456789, e |-> 5],
     [js |-> JNum(125, 3), m |-> 125, e |-> 3]}

\* the cell of the last formatValue call
FormattedCell == CHOOSE c \in NumberCells : c.js = call.value

\* the decimal option of the column
Places == options.columns["p"].decimal

\* the last call formatted a cell that parses as a number for a column of
\* format number whose decimal option, if given, is a count of digits that
\* toFixed takes
NumberFormatted ==
    /\ call.fn = "formatValue"
    /\ call.value \in {c.js : c \in NumberCells}
    /\ options.columns["p"].format = JStr("number")
    /\ Places \in {Undefined, NaN} \/ Places.m \in 0..100

\* cs without the characters ch
RECURSIVE Without(_, _)
Without(cs, ch) ==
    IF cs = <<>> THEN <<>>
    ELSE (IF cs[1] = ch THEN <<>> ELSE <<cs[1]>>) \o Without(Tail(cs), ch)

\* the index of the decimal point of cs, Len(cs) + 1 when it has none
PointOf(cs) == SkipNotIn(cs, 1, {"."})

\* the number of digits among cs[from..to]
DigitCount(cs, from, to) == Cardinality({k \in from..to : cs[k] \in Digit})

\* every comma of cs stands in the integer part, after a digit, with a
\* positive multiple of three digits between it and the end of that part
CommasGroupThrees(cs) ==
    \A i \in 1..Len(cs) :
        cs[i] = "," =>
            /\ i < PointOf(cs)
            /\ i > 1 /\ cs[i - 1] \in Digit
            /\ DigitCount(cs, i + 1, PointOf(cs) - 1) > 0
            /\ DigitCount(cs, i + 1, PointOf(cs) - 1) % 3 = 0

\* the text cs is a number with exactly digits fractional digits, at most
\* half a unit of the last of them away from m / 10^e
RoundsTo(cs, m, e, digits) ==
    LET r == ParseFloat(cs)
        E == Max({e, digits})
    IN  /\ r # NaN
        /\ Len(cs) - PointOf(cs) = (IF digits = 0 THEN 0 - 1 ELSE digits)
        /\ 2 * Abs(r.m * Pow10(E - r.e) - m * Pow10(E - e))
               <= Pow10(E - digits)

Tokens == {"yyyy", "MM", "dd", "HH", "mm", "ss"}

\* the local-time component a token stands for
Component(date, token) ==
    CASE token = "yyyy" -> NatChars(date.year)
      [] token = "MM" -> PadStart(NatChars(date.month), 2)
      [] token = "dd" -> PadStart(NatChars(date.day), 2)
      [] token = "HH" -> PadStart(NatChars(date.hours), 2)
      [] token = "mm" -> PadStart(NatChars(date.minutes), 2)
      [] token = "ss" -> PadStart(NatChars(date.seconds), 2)

\* the pattern from index i on, with the first occurrence of every token
\* replaced by its component, all at once
RECURSIVE AtOnce(_, _, _)
AtOnce(pattern, date, i) ==
    IF i > Len(pattern) THEN <<>>
    ELSE IF \E t \in Tokens : IndexOf(pattern, Chars(t), 1) = i
    THEN Component(date, CHOOSE t \in Tokens :
                             IndexOf(pattern, Chars(t), 1) = i)
             \o AtOnce(pattern, date,
                       i + Len(CHOOSE t \in Tokens :
                                   IndexOf(pattern, Chars(t), 1) = i))
    ELSE <<pattern[i]>> \o AtOnce(pattern, date, i + 1)

\* the local time the text 2024-01-05T10:20:30 stands for
IsoCell == JStr("2024-01-05T10:20:30")

IsoDate ==
    [valid |-> TRUE, year |-> 2024, month |-> 1, day |-> 5, hours |-> 10,
     minutes |-> 20, seconds |-> 30]

\* the last call formatted a value for a column of format datetime that
\* has a pattern
DateFormatted ==
    /\ call.fn = "formatValue"
    /\ call.value \notin {Null, Undefined}
    /\ options.columns["p"].format = JStr("datetime")
    /\ Truthy(options.columns["p"].pattern)

StringForm(value) ==
    IF value = JNum(12345, 1) THEN JStr("1234.5") ELSE value

\* no formatting applies to the last call: the format is text or absent,
\* or number with a value that has no number to read, or datetime without
\* a pattern, or datetime with a pattern and a value that gives no date
Unformatted ==
    /\ call.fn = "formatValue"
    /\ call.value # Null
    /\ \/ options.columns["p"].format \in {Undefined, JStr("text")}
       \/ /\ options.columns["p"].format = JStr("number")
          /\ call.value = JStr("abc")
       \/ /\ options.columns["p"].format = JStr("datetime")
          /\ \/ options.columns["p"].pattern = Undefined
             \/ call.value # IsoCell /\ ~call.hostDate.valid

\* C22: formatValue returns the value's default string form, unchanged,
\* whenever no formatting applies: format text or absent, format number
\* and a value that does not parse as a number, format datetime without a
\* pattern, or format datetime with a pattern and a value that does not
\* parse as a date.
C22_UnformattedIsStringForm ==
    Unformatted => call.result = StringForm(call.value)

\* abc was formatted for a datetime column with a pattern and gave no date
C22_Witness ==
    /\ Unformatted
    /\ DateFormatted
    /\ call.value = JStr("abc")
    /\ call.result = JStr("abc")

\* C29: a cell whose string form is not entirely a number, a numeric
\* prefix followed by other characters, is treated as no number:
\* formatValue with format=number returns it unchanged (and no numeric
\* rule of a row or a column matches it).
C29_NumericPrefixIsNoNumber ==
    (call.fn = "formatValue" /\ call.value = IsoCell
         /\ options.columns["p"].format = JStr("number"))
        => call.result = IsoCell

(***************************************************************************)
(* Properties of the sessions that style rows.                             *)
(***************************************************************************)
\* the directives typed that the parser accepts, in source order
RECURSIVE WellFormed(_)
WellFormed(cs) ==
    IF cs = <<>> THEN <<>>
    ELSE (IF cs[1].ok THEN <<cs[1]>> ELSE <<>>) \o WellFormed(Tail(cs))

\* the row of the last generateRowStyle call
StyledRow == CHOOSE r \in Rows : r.data = call.value

\* C6: for an @row directive with a quoted literal (any text between the
\* quotes, digits only or nothing at all included) the rule's value is the
\* string between the quotes, and generateRowStyle compares the cell's
\* string form with it: a lone == directive styles the row exactly when
\* the two strings are equal.
C6_QuotedLiteralIsString ==
    (Parsed /\ InDocComment) =>
        /\ Len(options.rowStyles) = Len(WellFormed(typed))
        /\ \A k \in 1..Len(WellFormed(typed)) :
               WellFormed(typed)[k].quoted =>
                   options.rowStyles[k].value
                       = JStr(WellFormed(typed)[k].literal)
        /\ (/\ call.fn = "generateRowStyle"
            /\ Len(typed) = 1
            /\ typed[1].quoted
            /\ typed[1].operator = "==")
               => (call.result # JStr("")
                       <=> StyledRow.dStr = typed[1].literal)

\* whether the directive c cannot be evaluated on the row r: the cell of
\* its column is missing or null, or the directive is numeric and the
\* cell does not parse as a number
Unevaluable(c, r) ==
    \/ c.column \notin DOMAIN r.data
    \/ r.data[c.column] = Null
    \/ ~c.quoted /\ c.column \notin r.numeric

\* xs without its k-th element
Remove(xs, k) == SubSeq(xs, 1, k - 1) \o SubSeq(xs, k + 1, Len(xs))

\* C7: in generateRowStyle a rule that cannot be evaluated contributes
\* nothing and does not stop the evaluation: the output equals the output
\* for the rule list without that rule.
C7_UnevaluableRuleSkipped ==
    (call.fn = "generateRowStyle"
         /\ Len(options.rowStyles) = Len(WellFormed(typed))) =>
        \A k \in 1..Len(options.rowStyles) :
            Unevaluable(WellFormed(typed)[k], StyledRow) =>
                call.result = generateRowStyle(call.value,
                                               Remove(options.rowStyles, k))

\* a numeric rule on a cell that is no number and a rule on a null cell
\* came before a rule that styled the row
C7_Witness ==
    /\ call.fn = "generateRowStyle"
    /\ Len(typed) = 3
    /\ typed[1].text = "\n * @row n>1.5:bg=#cfc"
    /\ typed[2].text = "\n * @row m!=0:fontWeight=600"
    /\ typed[3].text = "\n * @row d==\"S\":bg=#eef"
    /\ call.value = [d |-> JStr("S"), n |-> JStr("abc"), m |-> Null]
    /\ call.result = JStr("background-color: #eef")

\* the value the unquoted literal of directive c stands for: the number
\* when it is numeric, the text when it is not
LiteralValue(c) ==
    CASE c.literal = "1.5" -> JNum(15, 1)
      [] c.literal = "5" -> JNum(5, 0)
      [] c.literal = "0" -> JNum(0, 0)
      [] OTHER -> JStr(c.literal)

\* C15: an @row directive whose literal is unquoted is parsed into a rule
\* whose value is the literal as a number when it is numeric and the
\* literal as a string when it is not numeric.
C15_UnquotedLiteralParsed ==
    (Parsed /\ InDocComment) =>
        \A k \in 1..Len(typed) :
            (~typed[k].quoted /\ typed[k].operator \in SixOperators) =>
                \E j \in 1..Len(options.rowStyles) :
                    /\ options.rowStyles[j].columnName = typed[k].column
                    /\ options.rowStyles[j].operator = typed[k].operator
                    /\ options.rowStyles[j].value = LiteralValue(typed[k])

\* the declarations of the directives ds whose rule (of rules, in the same
\* order) applies to the row, in order
RECURSIVE MatchedDecls(_, _, _)
MatchedDecls(ds, rules, rowData) ==
    IF ds = <<>> THEN <<>>
    ELSE (IF RowConditionMet(rules[1], CellOf(rowData, rules[1].columnName))
          THEN ds[1].decls ELSE <<>>)
             \o MatchedDecls(Tail(ds), Tail(rules), rowData)

\* C19: parseOptions stores the rules of the accepted @row directives in
\* rowStyles in the order the directives appear in the comment, and
\* generateRowStyle evaluates them in that order, appending each matching
\* rule's declarations after those of every earlier matching rule.
C19_RowRulesInSourceOrder ==
    (Parsed /\ InDocComment) =>
        /\ Len(options.rowStyles) = Len(WellFormed(typed))
        /\ \A k \in 1..Len(WellFormed(typed)) :
               /\ options.rowStyles[k].columnName = WellFormed(typed)[k].column
               /\ options.rowStyles[k].operator
                      = WellFormed(typed)[k].operator
               /\ RuleDecls(options.rowStyles[k].styles)
                      = WellFormed(typed)[k].decls
        /\ call.fn = "generateRowStyle" =>
               ResultDecls = MatchedDecls(WellFormed(typed),
                                          options.rowStyles, call.value)

\* n>1.5 and then n<=5, after a directive the parser does not accept,
\* styled the row with n = 5: the declarations come out in that order
C19_Witness ==
    /\ call.fn = "generateRowStyle"
    /\ Len(typed) = 3
    /\ typed[1].text = "\n * @row d=S:bg=red"
    /\ typed[2].text = "\n * @row n>1.5:bg=#cfc"
    /\ typed[3].text = "\n * @row n<=5:color=blue, bold=true"
    /\ call.value = [d |-> JStr("U"), n |-> JNum(5, 0)]
    /\ call.result
           = JStr("background-color: #cfc; color: blue; font-weight: bold")


(***************************************************************************)
(* Properties of the sessions that set a column width.                     *)
(***************************************************************************)
\* whether the style string the last call returned holds a declaration of
\* the property name
Declares(name) ==
    \E d \in Range(ResultDecls) : StartsAt(Chars(d), 1, Chars(name \o ": "))

\* C25: whenever the column's width is set, the style produced for a cell
\* of the column holds a width declaration, with and without conditional
\* rules and whatever the cell value is.
C25_WidthAlwaysDeclared ==
    (call.fn = "generateConditionalStyle"
         /\ options.columns["p"].width # Undefined)
        => Declares("width")

====
